---- MODULE Spec2Model ----
(***************************************************************************)
(* One poker table of rtihomir/mcp_poker: Table (seating, hand start,      *)
(* betting engine, action timer, stage transitions, showdown) and Player;  *)
(* the state view of PokerServer, the action events of GameManager, and    *)
(* HandEvaluator (evaluateHand, compareHands) on cards of rank and suit;   *)
(* the snapshots broadcast to a table's subscribers and the registry of    *)
(* GameManager (joinTable, leaveTable, performAction).                     *)
(* Seat indices are 0-based as in the source; players[i + 1] is seat i.    *)
(***************************************************************************)
EXTENDS Integers, Sequences, FiniteSets, TLC

\* ------------------------------------------------------------------ bounds
\* Number of calls and callbacks that change the table, from construction on.
MaxOps == 7
\* Number of distinct hand strengths a showdown distinguishes.
MaxStrength == 2
\* Chip stack a player registers with.
InitChips == 3
\* Seats at the table: the maxPlayers the table is constructed with.
maxPlayers == 3

\* ------------------------------------------------------- program constants
smallBlind == 1
bigBlind == 2
minPlayers == 2
DeckSize == 52

\* Player ids known to the registry.
PIDS == {1, 2, 3, 4}
\* Amounts a caller may pass to handlePlayerAction.
Amounts == {2, 4}
\* PlayerAction, plus one string that is no member of the enum.
Actions == {"fold", "check", "call", "bet", "raise", "all-in", "other"}
\* GameStage.
Stages == {"waiting", "pre-flop", "flop", "turn", "river", "showdown"}
BettingStages == {"pre-flop", "flop", "turn", "river"}

VARIABLES
  players,            \* Table.players: the seat list, as a sequence of player ids
  obj,                \* the Player objects (they outlive their seat: PokerServer.players)
  pot, currentBet, dealerPosition, currentPlayerIndex, stage,
  communityCards,     \* number of community cards on the board
  deck,               \* number of cards left in the deck
  actionTimer,        \* TRUE while the action timer's callback is pending
  timerFor,           \* the player who became active when the timer was armed
  startsBeforeTimer,  \* delayed starts that were pending when the timer was armed
  pendingStarts,      \* number of pending delayed startGame callbacks (5 s)
  crashed,            \* an exception escaped a timer callback
  ops,                \* number of calls and callbacks that changed the table so far
  lastCall            \* the last operation: its arguments and what it returned

tvars == <<players, obj, pot, currentBet, dealerPosition, currentPlayerIndex, stage,
           communityCards, deck, actionTimer, timerFor, startsBeforeTimer,
           pendingStarts>>
vars == <<players, obj, pot, currentBet, dealerPosition, currentPlayerIndex, stage,
          communityCards, deck, actionTimer, timerFor, startsBeforeTimer,
          pendingStarts, crashed, ops, lastCall>>

\* ----------------------------------------------------------------- helpers
Min(a, b) == IF a < b THEN a ELSE b

Range(s) == {s[i] : i \in 1..Len(s)}

RECURSIVE SumOver(_, _)
SumOver(S, f) ==
  IF S = {} THEN 0
  ELSE LET x == CHOOSE y \in S : TRUE IN f[x] + SumOver(S \ {x}, f)

\* JavaScript's a % n for n > 0: the result has the sign of a.
Mod(a, n) == IF a >= 0 THEN a % n ELSE -((-a) % n)

\* Array.prototype.filter on a sequence of ids.
RECURSIVE Filter(_, _)
Filter(s, keep) ==
  IF s = <<>> THEN <<>>
  ELSE IF keep[Head(s)] THEN <<Head(s)>> \o Filter(Tail(s), keep)
  ELSE Filter(Tail(s), keep)

\* Array.prototype.findIndex(p => p.id === id): 0-based, -1 when absent.
findIndex(s, id) ==
  IF \E i \in 1..Len(s) : s[i] = id
  THEN (CHOOSE i \in 1..Len(s) : s[i] = id /\ \A j \in 1..(i - 1) : s[j] # id) - 1
  ELSE -1

\* ------------------------------------------------------------------ Player
\* hand is the number of cards in Player.hand; handOfOldDeck tells that they were drawn
\* from a Deck the table has since replaced.
NewPlayer(chips) ==
  [chips |-> chips, hand |-> 0, bet |-> 0, folded |-> FALSE, isAllIn |-> FALSE,
   isDealer |-> FALSE, isSmallBlind |-> FALSE, isBigBlind |-> FALSE,
   isActive |-> FALSE, isChecked |-> FALSE, hasActedThisStage |-> FALSE,
   handOfOldDeck |-> FALSE]

resetHand(p) ==
  [p EXCEPT !.hand = 0, !.bet = 0, !.folded = FALSE, !.isAllIn = FALSE,
            !.isDealer = FALSE, !.isSmallBlind = FALSE, !.isBigBlind = FALSE,
            !.isActive = FALSE, !.handOfOldDeck = FALSE]

\* A placeBet that pays the amount whatever the stack.
actualBetUncapped(p, amount) == amount

\* What placeBet returns.
actualBet(p, amount) == Min(amount, p.chips)

\* placeBet without the deduction from the stack.
placeBetKeepingChips(p, amount) ==
  [p EXCEPT !.bet = @ + actualBet(p, amount)]

\* The player after placeBet(amount).
placeBet(p, amount) ==
  LET a == actualBet(p, amount) IN
  [p EXCEPT !.chips = @ - a, !.bet = @ + a,
            !.isAllIn = IF p.chips - a = 0 THEN TRUE ELSE @]

fold(p) == [p EXCEPT !.folded = TRUE]

\* ------------------------------------------------------------------- Table
\* What a call of determineWinner saw on entry (kept for the record of the call).
NoShowdown ==
  [happened |-> FALSE, pot |-> 0, active |-> <<>>,
   str |-> [id \in PIDS |-> 0], chips |-> [id \in PIDS |-> 0]]

\* A call also records how often it entered moveToNextStage (stageCalls) and whether
\* moveToNextStage called itself with the stage it was entered with (sameStageAgain).
\* What a call records when it ends a betting street: the stage that ended, the
\* seated players still in the hand, and those of them, not all-in, whose bet was not
\* currentBet.
NoStreetEnd == [happened |-> FALSE, stage |-> "waiting", live |-> {}, owing |-> {}]

\* The table as one value, so that the methods compose as the calls do.
Cur ==
  [players |-> players, obj |-> obj, pot |-> pot, currentBet |-> currentBet,
   dealerPosition |-> dealerPosition, currentPlayerIndex |-> currentPlayerIndex,
   stage |-> stage, communityCards |-> communityCards, deck |-> deck,
   actionTimer |-> actionTimer, timerFor |-> timerFor,
   startsBeforeTimer |-> startsBeforeTimer, pendingStarts |-> pendingStarts,
   threw |-> FALSE, ret |-> "none", showdown |-> NoShowdown,
   streetEnd |-> NoStreetEnd, stageCalls |-> 0, sameStageAgain |-> FALSE]

Store(T) ==
  /\ players' = T.players
  /\ obj' = T.obj
  /\ pot' = T.pot
  /\ currentBet' = T.currentBet
  /\ dealerPosition' = T.dealerPosition
  /\ currentPlayerIndex' = T.currentPlayerIndex
  /\ stage' = T.stage
  /\ communityCards' = T.communityCards
  /\ deck' = T.deck
  /\ actionTimer' = T.actionTimer
  /\ timerFor' = T.timerFor
  /\ startsBeforeTimer' = T.startsBeforeTimer
  /\ pendingStarts' = T.pendingStarts

Seat(T, i) == T.obj[T.players[i + 1]]

clearActionTimer(T) == [T EXCEPT !.actionTimer = FALSE]

\* setTimeout(callback, actionTimeoutSeconds * 1000) after clearing the old one.
\* A delayed start armed earlier (5 s) expires before this timer (120 s) does.
setActionTimer(T) ==
  [clearActionTimer(T) EXCEPT
     !.actionTimer = TRUE,
     !.timerFor = IF T.currentPlayerIndex >= 0 /\ T.currentPlayerIndex < Len(T.players)
                  THEN T.players[T.currentPlayerIndex + 1] ELSE 0,
     !.startsBeforeTimer = T.pendingStarts]

\* dealCard(): pop, or undefined from an empty deck (then no card is added).
dealt(T, n) == Min(n, T.deck)

startGame(T) ==
  IF Len(T.players) < minPlayers THEN T
  ELSE
    LET n == Len(T.players)
        dealer == Mod(T.dealerPosition + 1, n)
        smallBlindPos == Mod(dealer + 1, n)
        bigBlindPos == Mod(dealer + 2, n)
        sb == T.players[smallBlindPos + 1]
        bb == T.players[bigBlindPos + 1]
        \* resetHand and hasActedThisStage = false, for every seated player; the
        \* cards the others still hold are of the deck that new Deck() replaces
        o1 == [id \in PIDS |->
                 IF id \in Range(T.players)
                 THEN [resetHand(T.obj[id]) EXCEPT !.hasActedThisStage = FALSE]
                 ELSE [T.obj[id] EXCEPT !.handOfOldDeck = (T.obj[id].hand > 0)]]
        o2 == [o1 EXCEPT ![T.players[dealer + 1]].isDealer = TRUE]
        o3 == [o2 EXCEPT ![sb].isSmallBlind = TRUE]
        o4 == [o3 EXCEPT ![bb].isBigBlind = TRUE]
        paidSmall == actualBet(o4[sb], smallBlind)
        o5 == [o4 EXCEPT ![sb] = placeBet(@, smallBlind)]
        paidBig == actualBet(o5[bb], bigBlind)
        o6 == [o5 EXCEPT ![bb] = placeBet(@, bigBlind)]
        \* two passes, one card per seated player per pass
        o7 == [id \in PIDS |->
                 IF id \in Range(T.players) THEN [o6[id] EXCEPT !.hand = @ + 2]
                 ELSE o6[id]]
        first == Mod(bigBlindPos + 1, n)
        o8 == [o7 EXCEPT ![T.players[first + 1]].isActive = TRUE]
    IN setActionTimer(
         [T EXCEPT !.deck = DeckSize - 2 * n,
                   !.communityCards = 0,
                   !.pot = paidSmall + paidBig,
                   !.currentBet = bigBlind,
                   !.obj = o8,
                   !.dealerPosition = dealer,
                   !.currentPlayerIndex = first,
                   !.stage = "pre-flop"])

addPlayerOk(T) == Len(T.players) < maxPlayers

\* An addPlayer that starts a hand whatever the stage.
addPlayerRestarting(T, id) ==
  IF ~addPlayerOk(T) THEN T
  ELSE startGame([T EXCEPT !.players = Append(@, id)])

addPlayer(T, id) ==
  IF ~addPlayerOk(T) THEN T
  ELSE
    LET T1 == [T EXCEPT !.players = Append(@, id)] IN
    IF Len(T1.players) >= minPlayers /\ T1.stage = "waiting" THEN startGame(T1) ELSE T1

removePlayerOk(T, id) == findIndex(T.players, id) # -1

removePlayer(T, id) ==
  IF ~removePlayerOk(T, id) THEN T
  ELSE
    LET T1 == [T EXCEPT !.players = Filter(@, [x \in PIDS |-> x # id])] IN
    IF Len(T1.players) < minPlayers THEN [T1 EXCEPT !.stage = "waiting"] ELSE T1

\* -------------------------------------------------------------- showdown
\* HandEvaluator.compareHands on the results of evaluateHand, which orders them
\* lexicographically by (rank, card values): str[id] is the place of id's result
\* in that order, drawn when the hands are compared.
compareHands(a, b) == a - b

Strengths == 1..MaxStrength

\* Array.prototype.sort((a, b) => compareHands(b.handResult, a.handResult)): stable,
\* strongest first.
RECURSIVE insertDesc(_, _, _)
insertDesc(s, x, str) ==
  IF s = <<>> THEN <<x>>
  ELSE IF compareHands(str[x], str[Head(s)]) > 0 THEN <<x>> \o s
  ELSE <<Head(s)>> \o insertDesc(Tail(s), x, str)

RECURSIVE sortDesc(_, _)
sortDesc(s, str) ==
  IF s = <<>> THEN <<>>
  ELSE insertDesc(sortDesc(SubSeq(s, 1, Len(s) - 1), str), s[Len(s)], str)

\* The leading run of playerHands that compares equal to playerHands[0].
RECURSIVE tiedPrefix(_, _, _)
tiedPrefix(s, first, str) ==
  IF s = <<>> THEN <<>>
  ELSE IF compareHands(str[first], str[Head(s)]) = 0
       THEN <<Head(s)>> \o tiedPrefix(Tail(s), first, str)
  ELSE <<>>

winnersOf(playerHands, str) ==
  <<playerHands[1]>> \o tiedPrefix(Tail(playerHands), playerHands[1], str)

removePlayersWithNoChips(T) ==
  LET keep == [id \in PIDS |-> ~(T.obj[id].chips <= 0)]
      left == Filter(T.players, keep)
  IN IF Len(left) = Len(T.players) THEN T
     ELSE [T EXCEPT !.players = left,
                    !.stage = IF Len(left) < minPlayers THEN "waiting" ELSE @]

\* A split that keeps the remainder.
payoutWithoutRemainder(T, winners) ==
  [id \in PIDS |-> IF id \in Range(winners) THEN T.pot \div Len(winners) ELSE 0]

\* The share of the pot each player is paid, given the winners in ranked order.
payout(T, winners) ==
  LET winAmount == T.pot \div Len(winners)
      remainder == Mod(T.pot, Len(winners))
  IN [id \in PIDS |->
        (IF id \in Range(winners) THEN winAmount ELSE 0)
        + (IF remainder > 0 /\ id = winners[1] THEN remainder ELSE 0)]

determineWinner(T, str) ==
  LET activePlayers == Filter(T.players, [id \in PIDS |-> ~T.obj[id].folded])
      seen == [happened |-> TRUE, pot |-> T.pot, active |-> activePlayers,
               str |-> [id \in PIDS |->
                          IF id \in Range(activePlayers) /\ Len(activePlayers) > 1
                          THEN str[id] ELSE 0],
               chips |-> [id \in PIDS |-> T.obj[id].chips]]
  IN IF Len(activePlayers) = 1 THEN
       removePlayersWithNoChips(
         [T EXCEPT !.obj[activePlayers[1]].chips = @ + T.pot, !.pot = 0,
                   !.showdown = seen])
     ELSE IF Len(activePlayers) = 0 THEN
       \* winners = [undefined]; winner.player throws a TypeError
       [T EXCEPT !.threw = TRUE]
     ELSE
       LET playerHands == sortDesc(activePlayers, str)
           winners == winnersOf(playerHands, str)
           pay == payout(T, winners)
       IN removePlayersWithNoChips(
            [T EXCEPT !.obj = [id \in PIDS |-> [@[id] EXCEPT !.chips = @ + pay[id]]],
                      !.pot = 0,
                      !.showdown = seen])

\* ------------------------------------------------------- stage transitions
eligible(T, i) == ~Seat(T, i).folded /\ ~Seat(T, i).isAllIn

\* The first seat among start, start + 1, ... (cyclically, n seats) that is
\* neither folded nor all-in; -1 when the scan comes back to start.
RECURSIVE firstEligible(_, _, _)
firstEligible(T, i, start) ==
  IF eligible(T, i) THEN i
  ELSE LET j == Mod(i + 1, Len(T.players)) IN
       IF j = start THEN -1 ELSE firstEligible(T, j, start)

\* The bets as they stand when the street ends, for the first street a call ends.
streetEnded(T) ==
  IF T.streetEnd.happened THEN T.streetEnd
  ELSE [happened |-> TRUE, stage |-> T.stage,
        live |-> {id \in Range(T.players) : ~T.obj[id].folded},
        owing |-> {id \in Range(T.players) :
                     /\ ~T.obj[id].folded /\ ~T.obj[id].isAllIn
                     /\ T.obj[id].bet # T.currentBet}]

\* A reset that leaves the street bets standing.
resetForStageKeepingBets(T) ==
  [T EXCEPT !.obj = [id \in PIDS |->
                       IF id \in Range(T.players)
                       THEN [@[id] EXCEPT !.isActive = FALSE, !.isChecked = FALSE,
                                          !.hasActedThisStage = FALSE]
                       ELSE @[id]],
            !.currentBet = 0,
            !.streetEnd = streetEnded(T)]

resetForStage(T) ==
  [T EXCEPT !.obj = [id \in PIDS |->
                       IF id \in Range(T.players)
                       THEN [@[id] EXCEPT !.isActive = FALSE, !.isChecked = FALSE,
                                          !.bet = 0, !.hasActedThisStage = FALSE]
                       ELSE @[id]],
            !.currentBet = 0,
            !.streetEnd = streetEnded(T)]

dealCommunity(T, n, next) ==
  [T EXCEPT !.communityCards = @ + dealt(T, n), !.deck = @ - dealt(T, n),
            !.stage = next]

\* The RIVER case: the showdown, then setTimeout(() => startGame(), 5000).
scheduleStart(T) == IF T.threw THEN T ELSE [T EXCEPT !.pendingStarts = @ + 1]

\* A switch that deals a flop of two cards.
dealStageShortFlop(T) ==
  CASE T.stage = "pre-flop" -> dealCommunity(T, 2, "flop")
    [] T.stage = "flop" -> dealCommunity(T, 1, "turn")
    [] T.stage = "turn" -> dealCommunity(T, 1, "river")
    [] OTHER -> T

\* The cards the switch deals and the stage it sets; WAITING has no case.
dealStage(T) ==
  CASE T.stage = "pre-flop" -> dealCommunity(T, 3, "flop")
    [] T.stage = "flop" -> dealCommunity(T, 1, "turn")
    [] T.stage = "turn" -> dealCommunity(T, 1, "river")
    [] OTHER -> T

\* The seat found to act first on the new street gets the turn and the timer.
takeTurn(T, seat) ==
  setActionTimer([T EXCEPT !.currentPlayerIndex = seat,
                           !.obj[T.players[seat + 1]].isActive = TRUE])

RECURSIVE moveToNextStage(_, _)
\* A scan that gives the turn to the seat left of the dealer, whoever sits there.
firstToActWhoever(T, start, str) == takeTurn(T, start)

\* After the switch: the scan for the first seat to act, from the dealer's left.
firstToAct(T, start, str) ==
  IF firstEligible(T, start, start) # -1 THEN takeTurn(T, firstEligible(T, start, start))
  \* nobody can act: recurse; in WAITING the stage does not change and the
  \* recursion ends in a RangeError (stack overflow)
  ELSE IF T.stage = "waiting"
       THEN [T EXCEPT !.currentPlayerIndex = start, !.threw = TRUE,
                      !.sameStageAgain = TRUE]
  ELSE moveToNextStage([T EXCEPT !.currentPlayerIndex = start], str)

\* players[(dealerPosition + 1) % 0] is undefined: reading .folded throws.
afterSwitch(T, str) ==
  IF Len(T.players) = 0 THEN [T EXCEPT !.threw = TRUE]
  ELSE firstToAct(T, Mod(T.dealerPosition + 1, Len(T.players)), str)

\* The switch on the stage, the bets and flags being reset.
switchStage(T, str) ==
  IF T.stage = "river"
  THEN scheduleStart(determineWinner([T EXCEPT !.stage = "showdown"], str))
  ELSE IF T.stage = "showdown" THEN T
  ELSE afterSwitch(dealStage(T), str)

moveToNextStage(T, str) ==
  switchStage([resetForStage(T) EXCEPT !.stageCalls = @ + 1], str)

\* ------------------------------------------------------------ betting round
isRoundComplete(T) ==
  LET nonFolded == {id \in Range(T.players) : ~T.obj[id].folded} IN
  IF Cardinality(nonFolded) = 1 THEN TRUE
  ELSE IF ~(\A id \in nonFolded : T.obj[id].hasActedThisStage \/ T.obj[id].isAllIn)
       THEN FALSE
  ELSE \A id \in Range(T.players) :
         \/ T.obj[id].folded
         \/ T.obj[id].isAllIn
         \/ T.obj[id].isChecked
         \/ (T.currentBet > 0 /\ T.obj[id].bet = T.currentBet)

haveAllPlayersChecked(T) ==
  LET activePlayers == {id \in Range(T.players) :
                          ~T.obj[id].folded /\ ~T.obj[id].isAllIn}
  IN IF Cardinality(activePlayers) <= 1 THEN TRUE
     ELSE \A id \in activePlayers : T.obj[id].isChecked

\* A scan that skips every player at currentBet, a currentBet of 0 included.
skippedAtCurrentBet(T, i) ==
  \/ Seat(T, i).folded
  \/ Seat(T, i).isAllIn
  \/ (Seat(T, i).bet = T.currentBet /\ T.stage # "pre-flop")

\* The seats moveToNextPlayer's scan skips.
skipped(T, i) ==
  \/ Seat(T, i).folded
  \/ Seat(T, i).isAllIn
  \/ (T.currentBet > 0 /\ Seat(T, i).bet = T.currentBet /\ T.stage # "pre-flop")

\* The seat the scan stops at, from seat i; -1 when it comes back to the current seat.
RECURSIVE nextPlayerIndex(_, _)
nextPlayerIndex(T, i) ==
  IF ~skipped(T, i) THEN i
  ELSE LET j == Mod(i + 1, Len(T.players)) IN
       IF j = T.currentPlayerIndex THEN -1 ELSE nextPlayerIndex(T, j)

\* The last player standing is paid the pot; setTimeout(() => startGame(), 5000).
winByFold(T, winner) ==
  [T EXCEPT !.obj[winner].chips = @ + T.pot,
            !.pot = 0,
            !.stage = "showdown",
            !.pendingStarts = @ + 1]

\* Where the turn goes, the timer being cleared: to the next stage when the round is
\* complete or the scan comes full circle, else to the seat the scan stops at.
passTurn(T, activePlayers, str) ==
  IF Len(activePlayers) = 1 THEN winByFold(T, activePlayers[1])
  ELSE IF \/ isRoundComplete(T)
          \/ nextPlayerIndex(T, Mod(T.currentPlayerIndex + 1, Len(T.players))) = -1
       THEN moveToNextStage(T, str)
  ELSE takeTurn(T, nextPlayerIndex(T, Mod(T.currentPlayerIndex + 1, Len(T.players))))

moveToNextPlayer(T, str) ==
  passTurn(clearActionTimer(T), Filter(T.players, [id \in PIDS |-> ~T.obj[id].folded]), str)

\* The table once the action is accepted: the player has acted, the turn moves on.
acted(T, id, str) ==
  moveToNextPlayer(
    [T EXCEPT !.obj[id].hasActedThisStage = TRUE, !.obj[id].isActive = FALSE], str)

\* A refusal that has already cancelled the action timer.
rejectedAfterClearing(T) == [clearActionTimer(T) EXCEPT !.ret = "false"]

rejected(T) == [T EXCEPT !.ret = "false"]

\* The conditions under which CHECK, BET and RAISE return false.
checkRejected(T, player) == player.bet < T.currentBet
betRejected(T, amount) == T.currentBet > 0 \/ amount < bigBlind
raiseRejectedBelowBetOnly(T, amount) == amount <= T.currentBet
raiseRejected(T, amount) == amount <= T.currentBet \/ amount < T.currentBet * 2

\* Every return false of handlePlayerAction; each precedes the first assignment.
returnsFalse(T, id, action, amount) ==
  \/ findIndex(T.players, id) = -1
  \/ findIndex(T.players, id) # T.currentPlayerIndex
  \/ action = "check" /\ checkRejected(T, T.obj[id])
  \/ action = "bet" /\ betRejected(T, amount)
  \/ action = "raise" /\ raiseRejected(T, amount)
  \/ action \notin {"fold", "check", "call", "bet", "raise", "all-in"}

\* BET and RAISE: placeBet, and every seated player's isChecked reset.
betPlaced(T, id, toPlace) ==
  [x \in PIDS |->
     IF x \in Range(T.players)
     THEN [(IF x = id THEN placeBet(T.obj[x], toPlace) ELSE T.obj[x])
             EXCEPT !.isChecked = FALSE]
     ELSE T.obj[x]]

\* The assignments of the switch, for an action that is not refused.
switchAction(T, id, player, action, amount) ==
  CASE action = "fold" -> [T EXCEPT !.obj[id] = fold(@)]
    [] action = "check" -> [T EXCEPT !.obj[id].isChecked = TRUE]
    [] action = "call" ->
         IF T.currentBet - player.bet <= 0 THEN T
         ELSE IF player.chips < T.currentBet - player.bet THEN
           [T EXCEPT !.pot = @ + player.chips,
                     !.obj[id].bet = @ + player.chips,
                     !.obj[id].chips = 0,
                     !.obj[id].isAllIn = TRUE]
         ELSE
           [T EXCEPT !.pot = @ + (T.currentBet - player.bet),
                     !.obj[id].chips = @ - (T.currentBet - player.bet),
                     !.obj[id].bet = @ + (T.currentBet - player.bet)]
    [] action = "bet" ->
         [T EXCEPT !.pot = @ + actualBet(player, amount),
                   !.currentBet = amount,
                   !.obj = betPlaced(T, id, amount)]
    [] action = "raise" ->
         [T EXCEPT !.pot = @ + actualBet(player, amount - player.bet),
                   !.currentBet = amount,
                   !.obj = betPlaced(T, id, amount - player.bet)]
    [] action = "all-in" ->
         [T EXCEPT !.pot = @ + actualBet(player, player.chips),
                   !.obj[id] = placeBet(player, player.chips),
                   !.currentBet = IF placeBet(player, player.chips).bet > @
                                  THEN placeBet(player, player.chips).bet ELSE @]

\* After the switch: a CHECK that finds everybody checked goes to the next stage
\* directly; every other action marks the player and moves the turn.
afterAction(T, id, action, str) ==
  IF action = "check" /\ haveAllPlayersChecked(T)
  THEN moveToNextStage([T EXCEPT !.obj[id].isActive = FALSE], str)
  ELSE acted(T, id, str)

\* return true, unless an exception ended the call.
returned(T) == [T EXCEPT !.ret = IF T.threw THEN "threw" ELSE "true"]

handlePlayerAction(T, id, action, amount, str) ==
  IF returnsFalse(T, id, action, amount) THEN rejected(T)
  ELSE returned(afterAction(switchAction(T, id, T.obj[id], action, amount), id, action, str))

\* ------------------------------------------------------------------ system
NoCall ==
  [op |-> "none", ret |-> "none", showdown |-> NoShowdown, events |-> <<>>,
   streetEnd |-> NoStreetEnd]

Init ==
  /\ players = <<>>
  /\ obj = [id \in PIDS |-> NewPlayer(InitChips)]
  /\ pot = 0
  /\ currentBet = 0
  /\ dealerPosition = -1
  /\ currentPlayerIndex = -1
  /\ stage = "waiting"
  /\ communityCards = 0
  /\ deck = DeckSize
  /\ actionTimer = FALSE
  /\ timerFor = 0
  /\ startsBeforeTimer = 0
  /\ pendingStarts = 0
  /\ crashed = FALSE
  /\ ops = 0
  /\ lastCall = NoCall

\* A step that changes the table is one of the first MaxOps such steps.
Counted(changes) ==
  /\ changes => ops < MaxOps
  /\ ops' = IF changes THEN ops + 1 ELSE ops

\* Ids are handed out at registration and mean nothing: of the players that were
\* never seated, the one with the smallest id joins first.
Fresh(id) == id \notin Range(players) /\ obj[id] = NewPlayer(InitChips)
JoinsNext(id) == Fresh(id) => \A j \in PIDS : j < id => ~Fresh(j)

\* The weakest hand for everybody.
NoStr == [id \in PIDS |-> 1]

\* The hand strengths a showdown may find, each player in it having any strength;
\* T is the outcome of the call under NoStr, which tells whether hands were compared.
StrChoices(T) ==
  IF T.showdown.happened /\ Len(T.showdown.active) > 1
  THEN {f \in [PIDS -> Strengths] :
          \A id \in PIDS : id \notin Range(T.showdown.active) => f[id] = 1}
  ELSE {NoStr}

\* What callers pass to handlePlayerAction: the amount is read for bet and raise only.
ActionInputs ==
  {<<a, 0>> : a \in Actions \ {"bet", "raise"}}
    \cup {<<a, m>> : a \in {"bet", "raise"}, m \in Amounts}

\* Table.addPlayer, called by GameManager.joinTable for a player not seated here.
AddPlayer(id) ==
  /\ ~crashed
  /\ id \notin Range(players)
  /\ JoinsNext(id)
  /\ Counted(addPlayerOk(Cur))
  /\ \E T \in {addPlayer(Cur, id)} : Store(T)
  /\ lastCall' = [NoCall EXCEPT !.op = "addPlayer",
                                !.ret = IF addPlayerOk(Cur) THEN "true" ELSE "false"]
  /\ UNCHANGED crashed

\* Table.removePlayer.
RemovePlayer(id) ==
  /\ ~crashed
  /\ Counted(removePlayerOk(Cur, id))
  /\ \E T \in {removePlayer(Cur, id)} : Store(T)
  /\ lastCall' = [NoCall EXCEPT !.op = "removePlayer",
                                !.ret = IF removePlayerOk(Cur, id) THEN "true" ELSE "false"]
  /\ UNCHANGED crashed

\* BroadcastService.broadcastPlayerAction after the call left the table as T: the
\* "playerAction" events emitted, one if the actor is found in the seat list.
broadcastPlayerAction(T, playerId, action, amount) ==
  IF findIndex(T.players, playerId) # -1
  THEN <<[playerId |-> playerId, action |-> action, amount |-> amount]>>
  ELSE <<>>

\* What GameManager.performAction emits: the broadcast when the call returned true.
performActionEvents(T, playerId, action, amount) ==
  IF T.ret = "true" THEN broadcastPlayerAction(T, playerId, action, amount) ELSE <<>>

\* GameManager.performAction: Table.handlePlayerAction called from outside, and the
\* broadcast of the action.
PlayerAction(id, action, amount) ==
  /\ ~crashed
  /\ \E T0 \in {handlePlayerAction(Cur, id, action, amount, NoStr)} :
     \E str \in StrChoices(T0) :
       \E T \in {IF str = NoStr THEN T0
                 ELSE handlePlayerAction(Cur, id, action, amount, str)} :
       /\ Counted(T.ret # "false")
       /\ Store(T)
       /\ lastCall' = [op |-> "action", ret |-> T.ret, showdown |-> T.showdown,
                       events |-> performActionEvents(T, id, action, amount),
                       streetEnd |-> T.streetEnd]
  /\ UNCHANGED crashed

\* The action the timer callback performs for a player.
autoAction(T, player) ==
  IF player.bet >= T.currentBet THEN "check" ELSE "fold"

\* The callback of setActionTimer: the timer has expired.
actionTimerCallback(T0, str) ==
  LET T == [T0 EXCEPT !.actionTimer = FALSE] IN
  IF T.currentPlayerIndex >= 0 /\ T.currentPlayerIndex < Len(T.players) THEN
    LET id == T.players[T.currentPlayerIndex + 1] IN
    handlePlayerAction(T, id, autoAction(T, T.obj[id]), 0, str)
  ELSE T

ActionTimerFires ==
  /\ ~crashed
  /\ actionTimer
  /\ startsBeforeTimer = 0
  /\ Counted(TRUE)
  /\ \E T0 \in {actionTimerCallback(Cur, NoStr)} :
     \E str \in StrChoices(T0) :
       \E T \in {IF str = NoStr THEN T0 ELSE actionTimerCallback(Cur, str)} :
       /\ Store(T)
       /\ crashed' = T.threw
       /\ lastCall' = [op |-> "timer", ret |-> T.ret, showdown |-> T.showdown,
                       events |-> <<>>, streetEnd |-> T.streetEnd]

\* The callback of setTimeout(() => startGame(), 5000).
delayedStart(T) ==
  startGame([T EXCEPT !.pendingStarts = @ - 1,
                      !.startsBeforeTimer = IF @ > 0 THEN @ - 1 ELSE 0])

DelayedStartFires ==
  /\ ~crashed
  /\ pendingStarts > 0
  /\ Counted(TRUE)
  /\ \E T \in {delayedStart(Cur)} : Store(T)
  /\ lastCall' = [NoCall EXCEPT !.op = "delayedStart"]
  /\ UNCHANGED crashed

Next ==
  \/ \E id \in PIDS : AddPlayer(id)
  \/ \E id \in PIDS : RemovePlayer(id)
  \/ \E id \in PIDS, in \in ActionInputs : PlayerAction(id, in[1], in[2])
  \/ ActionTimerFires
  \/ DelayedStartFires

Spec == Init /\ [][Next]_vars

\* ------------------------------------------------------------- properties
Seated == Range(players)

\* Chips in play: the pot and the stacks of the seated players.
TotalChips == pot + SumOver(Seated, [id \in PIDS |-> obj[id].chips])

\* The bets standing in front of the seated players.
TotalBets == SumOver(Seated, [id \in PIDS |-> obj[id].bet])

\* The step performs no addPlayer and no removePlayer call.
NoSeatCall == lastCall'.op \in {"action", "timer", "delayedStart"}

\* The step is a handlePlayerAction call that returned true, the timer's included.
AcceptedAction == lastCall'.op \in {"action", "timer"} /\ lastCall'.ret = "true"

\* C1: while no player joins or leaves, the seated players' chips plus the pot
\* keep their value through every action, timer expiry, hand start and payout.
C1_ChipConservation == [][NoSeatCall => TotalChips' = TotalChips]_vars

\* C2: through every accepted action of a hand, pot + sum of chips + sum of bets
\* keeps the value it had at hand start.
C2_PotChipsBetsConstant ==
  [][AcceptedAction /\ stage \in BettingStages
       => pot' + (TotalChips' - pot') + TotalBets' = pot + (TotalChips - pot) + TotalBets]_vars

\* C2, amended: through every accepted action, pot + sum of the seated players'
\* chips keeps its value; the bets are no part of the conserved quantity.
C2_PotChipsConstant == [][AcceptedAction => TotalChips' = TotalChips]_vars

\* An accepted action of a hand in progress has moved chips into the pot.
C2_Witness ==
  /\ lastCall.op = "action"
  /\ lastCall.ret = "true"
  /\ stage \in BettingStages
  /\ pot > smallBlind + bigBlind
  /\ TotalBets > 0

Contesting == {id \in Seated : ~obj[id].folded /\ ~obj[id].isAllIn}
ActiveSeated == {id \in Seated : obj[id].isActive}

\* C3: on an open betting street with more than one player neither folded nor
\* all-in, exactly one seated player is active; in every other state none is.
C3_ExactlyOneActive ==
  IF stage \in BettingStages /\ Cardinality(Contesting) > 1
  THEN Cardinality(ActiveSeated) = 1
  ELSE ActiveSeated = {}

\* C4: on an open betting street currentPlayerIndex is a seat of the table, and
\* the player in it is neither folded nor all-in.
C4_CurrentPlayerCanAct ==
  stage \in BettingStages =>
    /\ currentPlayerIndex >= 0
    /\ currentPlayerIndex < Len(players)
    /\ ~obj[players[currentPlayerIndex + 1]].folded
    /\ ~obj[players[currentPlayerIndex + 1]].isAllIn

StageRank(s) ==
  CASE s = "waiting" -> 0
    [] s = "pre-flop" -> 1
    [] s = "flop" -> 2
    [] s = "turn" -> 3
    [] s = "river" -> 4
    [] s = "showdown" -> 5

\* C5: the stage only moves forward within a hand, a new hand begins only from
\* WAITING or SHOWDOWN, and the only other change is the move to WAITING when
\* fewer than minPlayers are seated; a hand in progress is never started again.
C5_StageMonotonic ==
  [][/\ stage' # stage =>
          \/ StageRank(stage') > StageRank(stage)
          \/ stage = "showdown" /\ stage' = "pre-flop"
          \/ stage' = "waiting" /\ Len(players') < minPlayers
     /\ lastCall'.op = "delayedStart" /\ Len(players) >= minPlayers
          => stage \in {"waiting", "showdown"}]_vars

\* C6: a handlePlayerAction, addPlayer or removePlayer call that returns false
\* leaves every field of the table and of every player as it was, the pending
\* timers included.
C6_FalseChangesNothing ==
  [][lastCall'.op \in {"action", "addPlayer", "removePlayer"} /\ lastCall'.ret = "false"
       => UNCHANGED tvars]_vars

\* A call was refused in the middle of a hand, with chips in the pot and the
\* action timer pending.
C6_Witness ==
  /\ lastCall.ret = "false"
  /\ lastCall.op \in {"action", "addPlayer", "removePlayer"}
  /\ stage \in BettingStages
  /\ pot > 0
  /\ actionTimer

\* Amounts a caller may pass, legal or not.
AnyAmounts == 0..(2 * bigBlind + 1)

\* C7: an action of anyone but the player at currentPlayerIndex returns false; so
\* does a CHECK with player.bet < currentBet, a BET with currentBet > 0 or
\* amount < bigBlind, and a RAISE with amount <= currentBet or amount < 2 * currentBet.
C7_BettingLegality ==
  LET T == Cur
      Returns(id, action, amount) == handlePlayerAction(T, id, action, amount, NoStr).ret
  IN \A id \in PIDS :
       /\ (id \notin Seated \/ findIndex(players, id) # currentPlayerIndex)
            => \A action \in Actions, amount \in AnyAmounts :
                 Returns(id, action, amount) = "false"
       /\ obj[id].bet < currentBet => Returns(id, "check", 0) = "false"
       /\ \A amount \in AnyAmounts :
            /\ (currentBet > 0 \/ amount < bigBlind) => Returns(id, "bet", amount) = "false"
            /\ (amount <= currentBet \/ amount < 2 * currentBet)
                 => Returns(id, "raise", amount) = "false"

\* The player to act faces a bet, so that a CHECK, any BET, and a RAISE to less
\* than the double are all illegal, and a call of theirs has just been refused.
C7_Witness ==
  /\ lastCall.op = "action"
  /\ lastCall.ret = "false"
  /\ stage \in BettingStages
  /\ currentPlayerIndex >= 0
  /\ currentPlayerIndex < Len(players)
  /\ currentBet >= bigBlind
  /\ obj[players[currentPlayerIndex + 1]].bet < currentBet
  /\ obj[players[currentPlayerIndex + 1]].chips >= 2 * currentBet

\* The timer's callback finds a player at currentPlayerIndex and acts.
TimerActs ==
  /\ lastCall'.op = "timer"
  /\ currentPlayerIndex >= 0
  /\ currentPlayerIndex < Len(players)

\* The pending timer was armed for the player now to act, on a street still open.
TimerIsOfPlayerToAct ==
  /\ players[currentPlayerIndex + 1] = timerFor
  /\ obj[timerFor].isActive
  /\ stage \in BettingStages

\* C8: an expiring action timer acts for the player who became active when it was
\* armed, whose turn is still open; a timer armed for an earlier turn changes nothing.
C8_NoStaleTimer ==
  [][TimerActs =>
       \/ TimerIsOfPlayerToAct
       \/ UNCHANGED <<players, obj, pot, currentBet, dealerPosition, currentPlayerIndex,
                      stage, communityCards, deck, pendingStarts>>]_vars

\* The table fields after the step are those of T, the pending action timer included.
SameTable(T) ==
  /\ players' = T.players
  /\ obj' = T.obj
  /\ pot' = T.pot
  /\ currentBet' = T.currentBet
  /\ dealerPosition' = T.dealerPosition
  /\ currentPlayerIndex' = T.currentPlayerIndex
  /\ stage' = T.stage
  /\ communityCards' = T.communityCards
  /\ deck' = T.deck
  /\ pendingStarts' = T.pendingStarts
  /\ actionTimer' = T.actionTimer

\* C9: the table after a timer expiry is the table after the player to act issues
\* CHECK if player.bet >= currentBet, and FOLD otherwise.
C9_TimeoutAsExplicit ==
  [][TimerActs /\ TimerIsOfPlayerToAct =>
       LET id == players[currentPlayerIndex + 1]
           action == IF obj[id].bet >= currentBet THEN "check" ELSE "fold"
       IN \E str \in [PIDS -> Strengths] :
            SameTable(handlePlayerAction(Cur, id, action, 0, str))]_vars

\* The table fields after the step are those of T, but for the pending timer.
SameTableData(T) ==
  /\ players' = T.players
  /\ obj' = T.obj
  /\ pot' = T.pot
  /\ currentBet' = T.currentBet
  /\ dealerPosition' = T.dealerPosition
  /\ currentPlayerIndex' = T.currentPlayerIndex
  /\ stage' = T.stage
  /\ communityCards' = T.communityCards
  /\ deck' = T.deck
  /\ pendingStarts' = T.pendingStarts

\* C9, as far as it holds: seats, players, pot, bets, turn, stage, cards and the
\* scheduled hand starts after a timer expiry are those after the explicit action.
C9_TimeoutAsExplicitData ==
  [][TimerActs /\ TimerIsOfPlayerToAct =>
       LET id == players[currentPlayerIndex + 1]
           action == IF obj[id].bet >= currentBet THEN "check" ELSE "fold"
       IN \E str \in [PIDS -> Strengths] :
            SameTableData(handlePlayerAction(Cur, id, action, 0, str))]_vars

\* The greatest of the strengths compared at the last showdown.
Best(s) == CHOOSE b \in 0..MaxStrength :
             /\ \E id \in Range(s.active) : s.str[id] = b
             /\ \A id \in Range(s.active) : s.str[id] <= b

\* The tied winners of the last showdown.
Winners(s) == {id \in Range(s.active) : s.str[id] = Best(s)}

\* The first winner in ranked order: the sort is stable, so the first in seat order.
FirstWinner(s) ==
  s.active[CHOOSE i \in 1..Len(s.active) :
             /\ s.active[i] \in Winners(s)
             /\ \A j \in 1..(i - 1) : s.active[j] \notin Winners(s)]

\* C10: a showdown with pot P and k tied winners pays every winner P \div k, the
\* first winner P % k more, nobody else anything, and leaves the pot at 0.
C10_ShowdownSplit ==
  LET s == lastCall.showdown IN
  s.happened /\ Len(s.active) >= 1 =>
    LET k == Cardinality(Winners(s))
        paid == [id \in PIDS |-> obj[id].chips - s.chips[id]]
    IN /\ \A id \in Winners(s) \ {FirstWinner(s)} : paid[id] = s.pot \div k
       /\ paid[FirstWinner(s)] = (s.pot \div k) + (s.pot % k)
       /\ \A id \in PIDS \ Winners(s) : paid[id] = 0
       /\ SumOver(PIDS, paid) = s.pot
       /\ pot = 0

\* A showdown has split a pot that does not divide evenly among its tied winners.
C10_Witness ==
  LET s == lastCall.showdown IN
  /\ s.happened
  /\ Len(s.active) >= 2
  /\ Cardinality(Winners(s)) >= 2
  /\ s.pot % Cardinality(Winners(s)) # 0
  /\ obj[FirstWinner(s)].chips > s.chips[FirstWinner(s)]

NonFolded == {id \in Seated : ~obj[id].folded}

\* The step is an accepted action after which exactly one seated player is un-folded.
LeavesOneStanding ==
  AcceptedAction /\ Cardinality({id \in Seated : ~obj'[id].folded}) = 1

\* The un-folded player is paid the whole pot: the pot is empty, no chip is lost and
\* nobody else gains any.
PaidToLastStanding ==
  /\ pot' = 0
  /\ TotalChips' = TotalChips
  /\ \A id \in Seated : obj'[id].folded => obj'[id].chips <= obj[id].chips

\* C11: an accepted action that leaves exactly one un-folded seated player pays that
\* player the whole pot, leaves stage SHOWDOWN, nobody active, no action timer
\* pending and a hand start scheduled; no accepted action places a bet afterwards in
\* that hand.
C11_WinByFold ==
  [][/\ LeavesOneStanding =>
          /\ PaidToLastStanding
          /\ stage' = "showdown"
          /\ ActiveSeated' = {}
          /\ ~actionTimer'
          /\ pendingStarts' > 0
     /\ (Cardinality(NonFolded) = 1 /\ stage = "showdown" /\ pendingStarts > 0
           /\ lastCall'.op = "action" /\ lastCall'.ret = "true")
          => \A id \in Seated : obj'[id].bet = obj[id].bet]_vars

\* The payout of a win by fold during a betting stage, taken alone.
C11_WinByFoldPayout ==
  [][LeavesOneStanding /\ stage \in BettingStages /\ Cardinality(NonFolded) > 1
       => /\ PaidToLastStanding
          /\ stage' = "showdown"
          /\ ~actionTimer'
          /\ pendingStarts' = pendingStarts + 1]_vars

\* The step starts a hand: startGame runs with enough players seated, called by the
\* delayed start or by the addPlayer that fills the table in WAITING.
HandStarts ==
  \/ lastCall'.op = "delayedStart" /\ Len(players) >= minPlayers
  \/ /\ lastCall'.op = "addPlayer" /\ lastCall'.ret = "true"
     /\ stage = "waiting" /\ Len(players') >= minPlayers

\* C12: players left with no chips after a payout are removed before the next hand
\* starts, so every player seated when a hand starts has chips > 0 going into it.
C12_NoBrokePlayerAtHandStart ==
  [][HandStarts => \A id \in Seated' : obj[id].chips > 0]_vars

\* C12, second part: a showdown that removes broke players leaves the table in WAITING
\* when fewer than minPlayers remain.
C12_WaitingAfterElimination ==
  [][(lastCall'.showdown.happened /\ Len(players') < Len(players)
        /\ Len(players') < minPlayers) => stage' = "waiting"]_vars

C13_StaysWaiting ==
  [][(Len(players) < minPlayers /\ stage = "waiting"
        /\ lastCall'.op \in {"action", "timer", "delayedStart"}) => stage' = "waiting"]_vars

\* The step is a successful addPlayer.
Joined == lastCall'.op = "addPlayer" /\ lastCall'.ret = "true"

\* C14: a successful addPlayer that brings the seated count to minPlayers or more in
\* WAITING starts a hand in the same step; so WAITING implies fewer than minPlayers
\* seated; and a successful addPlayer during a hand only appends the new seat.
C14_AddPlayerStartsHand ==
  /\ [](stage = "waiting" => Len(players) < minPlayers)
  /\ [][/\ (Joined /\ stage = "waiting" /\ Len(players') >= minPlayers)
             => stage' = "pre-flop"
        /\ (Joined /\ stage # "waiting")
             => /\ \E id \in PIDS \ Seated : players' = Append(players, id)
                /\ <<obj, pot, currentBet, dealerPosition, currentPlayerIndex, stage,
                     communityCards, deck, actionTimer, pendingStarts>>'
                   = <<obj, pot, currentBet, dealerPosition, currentPlayerIndex, stage,
                       communityCards, deck, actionTimer, pendingStarts>>]_vars

\* A third player has joined a hand in progress that began when the second one joined.
C14_Witness ==
  /\ lastCall.op = "addPlayer" /\ lastCall.ret = "true"
  /\ Len(players) = minPlayers + 1
  /\ stage = "flop"

\* ---------------------------------------------------------------- state view
\* Card: a rank and a suit.  The hole cards a state view can show.
ViewCards == {[rank |-> "A", suit |-> "spades"], [rank |-> "K", suit |-> "hearts"]}

\* Card.toString: the text of the rank followed by the text of the suit.
toString(card) == <<card.rank, card.suit>>

\* Array.prototype.map(card => card.toString()).
cardStrings(cards) == [i \in 1..Len(cards) |-> toString(cards[i])]

\* Player.toJSON: the public fields and the hand.
toJSON(p, id, cards) ==
  [id |-> id, chips |-> p.chips, bet |-> p.bet, folded |-> p.folded,
   isAllIn |-> p.isAllIn, isDealer |-> p.isDealer, isSmallBlind |-> p.isSmallBlind,
   isBigBlind |-> p.isBigBlind, isActive |-> p.isActive, hand |-> cardStrings(cards)]

\* A player view that shows the hand to every viewer.
playerViewOpen(p, id, cards, playerId) == toJSON(p, id, cards)

\* The view of one seated player in handleGetTableState: the hand only for playerId.
playerView(p, id, cards, playerId) ==
  [id |-> id, chips |-> p.chips, bet |-> p.bet, folded |-> p.folded,
   isAllIn |-> p.isAllIn, isDealer |-> p.isDealer, isSmallBlind |-> p.isSmallBlind,
   isBigBlind |-> p.isBigBlind, isActive |-> p.isActive,
   hand |-> IF id = playerId THEN cardStrings(cards) ELSE <<>>]

\* PokerServer.handleGetTableState for the table T whose players hold the cards
\* hands[id]; playerId = 0 stands for a request without playerId.
handleGetTableState(T, hands, playerId) ==
  [stage |-> T.stage, pot |-> T.pot, currentBet |-> T.currentBet,
   smallBlind |-> smallBlind, bigBlind |-> bigBlind,
   communityCards |-> T.communityCards,
   players |-> [i \in 1..Len(T.players) |->
                  playerView(T.obj[T.players[i]], T.players[i], hands[T.players[i]],
                             playerId)],
   currentPlayerIndex |-> T.currentPlayerIndex]

\* The hole cards a player may hold: none, or two different cards in either order.
HandChoices ==
  {<<>>} \cup {c \in ViewCards \X ViewCards : c[1] # c[2]}

\* The hole cards of all players, seated players holding what HandChoices allows.
HandsOf(seats) ==
  {h \in [PIDS -> HandChoices] : \A id \in PIDS \ Range(seats) : h[id] = <<>>}

\* The tables viewed: the first n registered players seated in order, a hand dealt or
\* not, and a request not answered yet.
ViewInit ==
  /\ \E n \in 0..maxPlayers : players = [i \in 1..n |-> i]
  /\ \E h \in HandsOf(players) :
       /\ lastCall = [op |-> "none", hands |-> h, playerId |-> 0, ret |-> "none"]
       /\ obj = [id \in PIDS |-> [NewPlayer(InitChips) EXCEPT !.hand = Len(h[id])]]
  /\ pot = 0
  /\ currentBet = 0
  /\ dealerPosition = -1
  /\ currentPlayerIndex = -1
  /\ stage \in {"waiting", "pre-flop"}
  /\ communityCards = 0
  /\ deck = DeckSize
  /\ actionTimer = FALSE
  /\ timerFor = 0
  /\ startsBeforeTimer = 0
  /\ pendingStarts = 0
  /\ crashed = FALSE
  /\ ops = 0

\* A getTableState request with the given playerId; the table is left as it is.
GetTableState(playerId) ==
  /\ lastCall' = [lastCall EXCEPT !.op = "getTableState", !.playerId = playerId,
                                  !.ret = handleGetTableState(Cur, lastCall.hands, playerId)]
  /\ UNCHANGED <<tvars, crashed, ops>>

ViewNext == \E playerId \in PIDS \cup {0} : GetTableState(playerId)

ViewSpec == ViewInit /\ [][ViewNext]_vars

\* The hands h with every hand but v's replaced by some other choice.
SameForViewer(h, v) == {g \in HandsOf(players) : g[v] = h[v]}

\* C15: the snapshot getTableState returns for viewer v shows v's hole cards at v's
\* seat and an empty hand at every other seat, and is the same for any two tables that
\* differ only in the hole cards of players other than v.
C15_ViewPrivacy ==
  lastCall.op = "getTableState" =>
    LET v == lastCall.playerId
        snap == lastCall.ret
    IN /\ Len(snap.players) = Len(players)
       /\ \A i \in 1..Len(players) :
            /\ snap.players[i].id = players[i]
            /\ snap.players[i].hand =
                 IF players[i] = v THEN cardStrings(lastCall.hands[v]) ELSE <<>>
       /\ v \in PIDS =>
            \A g \in SameForViewer(lastCall.hands, v) :
              handleGetTableState(Cur, g, v) = snap

\* A seated viewer holding two cards has asked for the state of a table at which
\* another seated player holds two cards too.
C15_Witness ==
  /\ lastCall.op = "getTableState"
  /\ lastCall.playerId \in Seated
  /\ Len(lastCall.hands[lastCall.playerId]) = 2
  /\ \E id \in Seated \ {lastCall.playerId} : Len(lastCall.hands[id]) = 2
  /\ \E i \in 1..Len(players) : Len(lastCall.ret.players[i].hand) = 2

\* C16: a call of performAction that is accepted emits exactly one "action performed"
\* event, carrying the actor, the action kind and the amount (also when the call
\* resolves the showdown); a call that is rejected emits none.
C16_OneEventPerAcceptedAction ==
  [][lastCall'.op = "action" =>
       IF lastCall'.ret = "true"
       THEN /\ Len(lastCall'.events) = 1
            /\ lastCall'.events[1].playerId = players[currentPlayerIndex + 1]
            /\ <<lastCall'.events[1].action, lastCall'.events[1].amount>> \in ActionInputs
       ELSE lastCall'.events = <<>>]_vars

\* C16 for the calls that remove nobody from the table.
C16_OneEventWhileSeated ==
  [][(lastCall'.op = "action" /\ Seated \subseteq Seated') =>
       IF lastCall'.ret = "true"
       THEN /\ Len(lastCall'.events) = 1
            /\ lastCall'.events[1].playerId = players[currentPlayerIndex + 1]
       ELSE lastCall'.events = <<>>]_vars

\* ------------------------------------------------------------ HandEvaluator
\* HandRank.
HIGH_CARD == 0
PAIR == 1
TWO_PAIR == 2
THREE_OF_A_KIND == 3
STRAIGHT == 4
FLUSH == 5
FULL_HOUSE == 6
FOUR_OF_A_KIND == 7
STRAIGHT_FLUSH == 8
ROYAL_FLUSH == 9

HandRank ==
  {HIGH_CARD, PAIR, TWO_PAIR, THREE_OF_A_KIND, STRAIGHT, FLUSH, FULL_HOUSE,
   FOUR_OF_A_KIND, STRAIGHT_FLUSH, ROYAL_FLUSH}

\* HandEvaluator.RANK_VALUES, keyed by the members of Rank.
RANK_VALUES ==
  [TWO |-> 2, THREE |-> 3, FOUR |-> 4, FIVE |-> 5, SIX |-> 6, SEVEN |-> 7,
   EIGHT |-> 8, NINE |-> 9, TEN |-> 10, JACK |-> 11, QUEEN |-> 12, KING |-> 13,
   ACE |-> 14]

\* Rank and Suit.
Rank == DOMAIN RANK_VALUES
Suit == {"hearts", "diamonds", "clubs", "spades"}

\* The loop of compareHands from index i (0-based) up to n: the first difference of
\* the card values, 0 if there is none.
RECURSIVE compareCards(_, _, _, _)
compareCards(cards1, cards2, i, n) ==
  IF i >= n THEN 0
  ELSE IF RANK_VALUES[cards1[i + 1].rank] # RANK_VALUES[cards2[i + 1].rank]
       THEN RANK_VALUES[cards1[i + 1].rank] - RANK_VALUES[cards2[i + 1].rank]
  ELSE compareCards(cards1, cards2, i + 1, n)

\* A comparison that looks at the cards only.
compareHandsByCards(hand1, hand2) ==
  compareCards(hand1.cards, hand2.cards, 0, Min(Len(hand1.cards), Len(hand2.cards)))

\* HandEvaluator.compareHands on two hand results.
HandEvaluator_compareHands(hand1, hand2) ==
  IF hand1.rank # hand2.rank THEN hand1.rank - hand2.rank
  ELSE compareCards(hand1.cards, hand2.cards, 0,
                    Min(Len(hand1.cards), Len(hand2.cards)))

\* The table as constructed, untouched while the evaluator is exercised.
TableAtConstruction ==
  /\ players = <<>>
  /\ obj = [id \in PIDS |-> NewPlayer(InitChips)]
  /\ pot = 0
  /\ currentBet = 0
  /\ dealerPosition = -1
  /\ currentPlayerIndex = -1
  /\ stage = "waiting"
  /\ communityCards = 0
  /\ deck = DeckSize
  /\ actionTimer = FALSE
  /\ timerFor = 0
  /\ startsBeforeTimer = 0
  /\ pendingStarts = 0
  /\ crashed = FALSE
  /\ ops = 0

\* Cards of a hand result: HandSize of them.
HandSize == 5
\* The cards the compared hand results are made of: a low and a high rank.
CompareCards == {[rank |-> "FIVE", suit |-> "clubs"], [rank |-> "ACE", suit |-> "clubs"]}

\* Hand results of any category with any HandSize cards in any order.
HandResults ==
  {[rank |-> r, cards |-> c] : r \in HandRank, c \in [1..HandSize -> CompareCards]}

CompareInit ==
  /\ TableAtConstruction
  /\ \E hand1 \in HandResults, hand2 \in HandResults :
       lastCall = [op |-> "none", hand1 |-> hand1, hand2 |-> hand2, ret |-> 0]

CompareHands ==
  /\ lastCall.op = "none"
  /\ lastCall' = [lastCall EXCEPT !.op = "compareHands",
                                  !.ret = HandEvaluator_compareHands(lastCall.hand1,
                                                                     lastCall.hand2)]
  /\ UNCHANGED <<tvars, crashed, ops>>

CompareNext == CompareHands

CompareSpec == CompareInit /\ [][CompareNext]_vars

\* The categories from the lowest to the highest.
CategoryOrder ==
  <<HIGH_CARD, PAIR, TWO_PAIR, THREE_OF_A_KIND, STRAIGHT, FLUSH, FULL_HOUSE,
    FOUR_OF_A_KIND, STRAIGHT_FLUSH, ROYAL_FLUSH>>

Place(category) == CHOOSE i \in 1..Len(CategoryOrder) : CategoryOrder[i] = category

Sign(x) == IF x > 0 THEN 1 ELSE IF x < 0 THEN -1 ELSE 0

\* The positions at which two card lists differ in rank value.
Differing(cards1, cards2) ==
  {i \in 1..HandSize : RANK_VALUES[cards1[i].rank] # RANK_VALUES[cards2[i].rank]}

FirstOf(S) == CHOOSE i \in S : \A j \in S : i <= j

\* C17: compareHands orders two hand results of different categories by category,
\* whatever their cards; with equal categories the first position at which the two
\* 5-card lists differ in rank decides, and the result is 0 exactly when the ranks
\* are equal at all five positions.
C17_CompareHands ==
  lastCall.op = "compareHands" =>
    LET hand1 == lastCall.hand1
        hand2 == lastCall.hand2
        diff == Differing(hand1.cards, hand2.cards)
    IN /\ hand1.rank # hand2.rank =>
            Sign(lastCall.ret) = Sign(Place(hand1.rank) - Place(hand2.rank))
       /\ (hand1.rank = hand2.rank /\ diff # {}) =>
            Sign(lastCall.ret) =
              Sign(RANK_VALUES[hand1.cards[FirstOf(diff)].rank]
                     - RANK_VALUES[hand2.cards[FirstOf(diff)].rank])
       /\ (hand1.rank = hand2.rank) => (lastCall.ret = 0 <=> diff = {})

\* Two hand results of one category were compared whose first cards are equal and
\* whose later cards decide, against the sum of the ranks.
C17_Witness ==
  /\ lastCall.op = "compareHands"
  /\ lastCall.hand1.rank = lastCall.hand2.rank
  /\ FirstOf(Differing(lastCall.hand1.cards, lastCall.hand2.cards) \cup {HandSize}) = 2
  /\ lastCall.ret > 0
  /\ Cardinality({i \in 1..HandSize : lastCall.hand1.cards[i].rank = "ACE"}) = 1

\* null, where a check of the evaluator finds nothing.
Null == [rank |-> -1, cards |-> <<>>]

\* Array.prototype.slice(0, n).
slice(s, n) == SubSeq(s, 1, Min(n, Len(s)))

\* cards.sort((a, b) => RANK_VALUES[b.rank] - RANK_VALUES[a.rank]): stable, descending.
RECURSIVE insertByRank(_, _)
insertByRank(sorted, card) ==
  IF sorted = <<>> THEN <<card>>
  ELSE IF RANK_VALUES[card.rank] > RANK_VALUES[Head(sorted).rank]
       THEN <<card>> \o sorted
  ELSE <<Head(sorted)>> \o insertByRank(Tail(sorted), card)

RECURSIVE sortByRank(_)
sortByRank(cards) ==
  IF cards = <<>> THEN <<>>
  ELSE insertByRank(sortByRank(SubSeq(cards, 1, Len(cards) - 1)), cards[Len(cards)])

\* groupBySuit(cards)[suit] and groupByRank(cards)[rank]; absent groups are empty.
suitGroup(cards, suit) == SelectSeq(cards, LAMBDA card : card.suit = suit)
rankGroup(cards, rank) == SelectSeq(cards, LAMBDA card : card.rank = rank)

\* cards.filter(card => card.rank !== rank), sorted: the kickers.
kickersWithout(cards, ranks) ==
  sortByRank(SelectSeq(cards, LAMBDA card : card.rank \notin ranks))

\* The suits with five cards or more, and the one looked at: seven cards hold one
\* such suit at most.
flushSuits(cards) == {suit \in Suit : Len(suitGroup(cards, suit)) >= HandSize}
flushCards(cards) ==
  IF flushSuits(cards) = {} THEN <<>>
  ELSE suitGroup(cards, CHOOSE suit \in flushSuits(cards) : TRUE)

\* Array.prototype.find for a rank.
findRank(cards, rank) == rankGroup(cards, rank)[1]

\* The regular-straight loop of findStraight at index i (0-based), straight being the
\* run collected so far.
RECURSIVE straightLoop(_, _, _)
straightLoop(sortedCards, i, straight) ==
  IF i >= Len(sortedCards) THEN <<>>
  ELSE IF RANK_VALUES[sortedCards[i].rank] - RANK_VALUES[sortedCards[i + 1].rank] = 1
       THEN IF Len(straight) + 1 = HandSize THEN Append(straight, sortedCards[i + 1])
            ELSE straightLoop(sortedCards, i + 1, Append(straight, sortedCards[i + 1]))
  ELSE IF RANK_VALUES[sortedCards[i].rank] # RANK_VALUES[sortedCards[i + 1].rank]
       THEN straightLoop(sortedCards, i + 1, <<sortedCards[i + 1]>>)
  ELSE straightLoop(sortedCards, i + 1, straight)

WheelRanks == {"ACE", "TWO", "THREE", "FOUR", "FIVE"}

\* HandEvaluator.findStraight; null is the empty sequence.
findStraight(sortedCards) ==
  IF Len(sortedCards) < HandSize THEN <<>>
  ELSE IF /\ sortedCards[1].rank = "ACE"
          /\ Len(SelectSeq(sortedCards, LAMBDA card : card.rank \in WheelRanks)) >= HandSize
       THEN <<findRank(sortedCards, "FIVE"), findRank(sortedCards, "FOUR"),
              findRank(sortedCards, "THREE"), findRank(sortedCards, "TWO"),
              findRank(sortedCards, "ACE")>>
  ELSE straightLoop(sortedCards, 1, <<sortedCards[1]>>)

\* A result of the given category if cards were found, else null.
resultOf(category, cards) ==
  IF cards = <<>> THEN Null ELSE [rank |-> category, cards |-> cards]

RoyalRanks == {"TEN", "JACK", "QUEEN", "KING", "ACE"}

royalCards(suitCards) == SelectSeq(suitCards, LAMBDA card : card.rank \in RoyalRanks)

checkRoyalFlush(cards) ==
  resultOf(ROYAL_FLUSH,
           IF Len(royalCards(flushCards(cards))) = HandSize
           THEN royalCards(flushCards(cards)) ELSE <<>>)

checkStraightFlush(cards) ==
  resultOf(STRAIGHT_FLUSH, findStraight(sortByRank(flushCards(cards))))

\* The ranks whose group has a size in sizes.
ranksOfSize(cards, sizes) == {rank \in Rank : Len(rankGroup(cards, rank)) \in sizes}

\* The rank of the set with the highest value.
highest(ranks) == CHOOSE r \in ranks : \A q \in ranks : RANK_VALUES[q] <= RANK_VALUES[r]

\* [...rankCards, kickers[0], ..]: the group of the rank, then n kickers.
groupAndKickers(cards, rank, n) ==
  rankGroup(cards, rank) \o slice(kickersWithout(cards, {rank}), n)

checkFourOfAKind(cards) ==
  resultOf(FOUR_OF_A_KIND,
           IF ranksOfSize(cards, {4}) = {} THEN <<>>
           ELSE groupAndKickers(cards, CHOOSE r \in ranksOfSize(cards, {4}) : TRUE, 1))

\* The full house of the highest three of a kind and the highest other pair.
fullHouseOf(cards, threes, pairs) ==
  IF threes = {} \/ pairs \ {highest(threes)} = {} THEN <<>>
  ELSE slice(rankGroup(cards, highest(threes)), 3)
         \o slice(rankGroup(cards, highest(pairs \ {highest(threes)})), 2)

checkFullHouse(cards) ==
  resultOf(FULL_HOUSE,
           fullHouseOf(cards, ranksOfSize(cards, 3..7), ranksOfSize(cards, 2..7)))

checkFlush(cards) == resultOf(FLUSH, slice(sortByRank(flushCards(cards)), HandSize))

\* getUniqueRankCards: the first card of each rank, in the order of the cards.
RECURSIVE getUniqueRankCards(_)
getUniqueRankCards(cards) ==
  IF cards = <<>> THEN <<>>
  ELSE LET init == getUniqueRankCards(SubSeq(cards, 1, Len(cards) - 1))
           last == cards[Len(cards)]
       IN IF \E i \in 1..Len(init) : init[i].rank = last.rank THEN init
          ELSE Append(init, last)

checkStraight(cards) ==
  resultOf(STRAIGHT, findStraight(sortByRank(getUniqueRankCards(cards))))

checkThreeOfAKind(cards) ==
  resultOf(THREE_OF_A_KIND,
           IF ranksOfSize(cards, {3}) = {} THEN <<>>
           ELSE groupAndKickers(cards, CHOOSE r \in ranksOfSize(cards, {3}) : TRUE, 2))

\* The two highest pairs and the highest kicker.
twoPairOf(cards, pairs) ==
  IF Cardinality(pairs) < 2 THEN <<>>
  ELSE slice(rankGroup(cards, highest(pairs)), 2)
         \o slice(rankGroup(cards, highest(pairs \ {highest(pairs)})), 2)
         \o slice(kickersWithout(cards, {highest(pairs),
                                         highest(pairs \ {highest(pairs)})}), 1)

checkTwoPair(cards) == resultOf(TWO_PAIR, twoPairOf(cards, ranksOfSize(cards, 2..7)))

checkPair(cards) ==
  resultOf(PAIR,
           IF ranksOfSize(cards, {2}) = {} THEN <<>>
           ELSE groupAndKickers(cards, CHOOSE r \in ranksOfSize(cards, {2}) : TRUE, 3))

getHighCard(cards) == [rank |-> HIGH_CARD, cards |-> slice(sortByRank(cards), HandSize)]

\* The first of the results that is not null.
firstFound(results) ==
  results[CHOOSE i \in 1..Len(results) :
            results[i] # Null /\ \A j \in 1..(i - 1) : results[j] = Null]

\* HandEvaluator.evaluateHand.
evaluateHand(playerCards, community) ==
  firstFound(<<checkRoyalFlush(playerCards \o community),
               checkStraightFlush(playerCards \o community),
               checkFourOfAKind(playerCards \o community),
               checkFullHouse(playerCards \o community),
               checkFlush(playerCards \o community),
               checkStraight(playerCards \o community),
               checkThreeOfAKind(playerCards \o community),
               checkTwoPair(playerCards \o community),
               checkPair(playerCards \o community),
               getHighCard(playerCards \o community)>>)

\* The cards a hand is dealt from, in deck order.
EvalDeck ==
  <<[rank |-> "ACE", suit |-> "spades"], [rank |-> "KING", suit |-> "spades"],
    [rank |-> "QUEEN", suit |-> "spades"], [rank |-> "JACK", suit |-> "spades"],
    [rank |-> "TEN", suit |-> "spades"], [rank |-> "SIX", suit |-> "spades"],
    [rank |-> "FIVE", suit |-> "spades"], [rank |-> "FOUR", suit |-> "spades"],
    [rank |-> "THREE", suit |-> "spades"], [rank |-> "ACE", suit |-> "hearts"],
    [rank |-> "NINE", suit |-> "hearts"], [rank |-> "TWO", suit |-> "hearts"],
    [rank |-> "NINE", suit |-> "diamonds"], [rank |-> "TWO", suit |-> "diamonds"]>>

\* Hole cards of a player and community cards at showdown.
HoleCards == 2
BoardCards == 5

\* The cards at the positions S of the deck, in deck order.
RECURSIVE dealtFrom(_)
dealtFrom(S) ==
  IF S = {} THEN <<>>
  ELSE LET i == CHOOSE x \in S : \A y \in S : x <= y
       IN <<EvalDeck[i]>> \o dealtFrom(S \ {i})

\* Any seven cards of the deck: the first two to the player, five to the board.
EvalInit ==
  /\ TableAtConstruction
  /\ \E S \in {X \in SUBSET (1..Len(EvalDeck)) : Cardinality(X) = HoleCards + BoardCards} :
       lastCall = [op |-> "none", ret |-> Null,
                   hole |-> SubSeq(dealtFrom(S), 1, HoleCards),
                   board |-> SubSeq(dealtFrom(S), HoleCards + 1, HoleCards + BoardCards)]

EvaluateHand ==
  /\ lastCall.op = "none"
  /\ lastCall' = [lastCall EXCEPT !.op = "evaluateHand",
                                  !.ret = evaluateHand(lastCall.hole, lastCall.board)]
  /\ UNCHANGED <<tvars, crashed, ops>>

EvalNext == EvaluateHand

EvalSpec == EvalInit /\ [][EvalNext]_vars

\* ---- the rank of five cards by the rules of the game
Value(card) == RANK_VALUES[card.rank]

\* How many of the five cards have the value of the card.
Count(five, card) == Cardinality({c \in five : Value(c) = Value(card)})

IsFlush(five) == \A a \in five, b \in five : a.suit = b.suit

\* The top value of the straight the five cards form (5 for the wheel), 0 if none.
StraightTop(five) ==
  LET vals == {Value(c) : c \in five}
      top == CHOOSE v \in vals : \A w \in vals : w <= v
  IN IF Cardinality(vals) # HandSize THEN 0
     ELSE IF vals = {14, 5, 4, 3, 2} THEN 5
     ELSE IF vals = (top - 4)..top THEN top
     ELSE 0

\* The sizes of the groups of equal value, one entry per card.
Pattern(five) == {<<Value(c), Count(five, c)>> : c \in five}

Category(five) ==
  LET sizes == {p[2] : p \in Pattern(five)}
      groups == Cardinality(Pattern(five))
  IN CASE StraightTop(five) = 14 /\ IsFlush(five) -> ROYAL_FLUSH
       [] StraightTop(five) > 0 /\ IsFlush(five) -> STRAIGHT_FLUSH
       [] 4 \in sizes -> FOUR_OF_A_KIND
       [] sizes = {3, 2} -> FULL_HOUSE
       [] IsFlush(five) -> FLUSH
       [] StraightTop(five) > 0 -> STRAIGHT
       [] 3 \in sizes -> THREE_OF_A_KIND
       [] groups = 3 -> TWO_PAIR
       [] groups = 4 -> PAIR
       [] OTHER -> HIGH_CARD

\* The values in tie-break order, larger groups first, as one number to base 15; a
\* straight counts by its top card.
RECURSIVE TieBreak(_, _)
TieBreak(five, rest) ==
  IF rest = {} THEN 0
  ELSE LET c == CHOOSE x \in rest :
                  \A y \in rest : <<Count(five, y), Value(y)>> = <<Count(five, x), Value(x)>>
                                  \/ Count(five, y) < Count(five, x)
                                  \/ (Count(five, y) = Count(five, x) /\ Value(y) < Value(x))
       IN Value(c) * (15 ^ (Cardinality(rest) - 1)) + TieBreak(five, rest \ {c})

\* The rank of five cards: the category first, then the tie-break.
Score(five) ==
  Category(five) * (15 ^ HandSize)
    + (IF StraightTop(five) > 0 THEN StraightTop(five) ELSE TieBreak(five, five))

FiveOf(cards) == {S \in SUBSET cards : Cardinality(S) = HandSize}

\* C18: evaluateHand returns five of the seven cards, names their category, and no
\* five of the seven cards rank strictly higher by category and tie-break.
C18_EvaluateHandBest ==
  lastCall.op = "evaluateHand" =>
    LET all == Range(lastCall.hole \o lastCall.board)
        best == Range(lastCall.ret.cards)
    IN /\ Len(lastCall.ret.cards) = HandSize
       /\ Cardinality(best) = HandSize
       /\ best \subseteq all
       /\ lastCall.ret.rank = Category(best)
       /\ \A S \in FiveOf(all) : Score(S) <= Score(best)

\* C18 for the category alone: evaluateHand returns five of the seven cards, names
\* their category, and no five of the seven cards are of a higher category.
C18_BestCategory ==
  lastCall.op = "evaluateHand" =>
    LET all == Range(lastCall.hole \o lastCall.board)
        best == Range(lastCall.ret.cards)
    IN /\ Len(lastCall.ret.cards) = HandSize
       /\ Cardinality(best) = HandSize
       /\ best \subseteq all
       /\ lastCall.ret.rank = Category(best)
       /\ \A S \in FiveOf(all) : Category(S) <= lastCall.ret.rank

\* C18, the examples: ace to ten of spades is a Royal Flush, and the wheel with a pair
\* of nines is a Straight from the five down.
C18_Examples ==
  lastCall.op = "evaluateHand" =>
    LET all == Range(lastCall.hole \o lastCall.board)
        ranks == [i \in 1..Len(lastCall.ret.cards) |-> lastCall.ret.cards[i].rank]
    IN /\ Cardinality({c \in all : c.suit = "spades" /\ c.rank \in RoyalRanks}) = HandSize
            => lastCall.ret.rank = ROYAL_FLUSH
       /\ ({c.rank : c \in all} = {"FIVE", "FOUR", "THREE", "TWO", "ACE", "NINE"}
             /\ flushSuits(lastCall.hole \o lastCall.board) = {})
            => /\ lastCall.ret.rank = STRAIGHT
               /\ ranks = <<"FIVE", "FOUR", "THREE", "TWO", "ACE">>

\* C19: the chips and the street bet of every seated player, the pot and currentBet
\* are never negative.
C19_NonNegative ==
  /\ \A id \in Seated : obj[id].chips >= 0 /\ obj[id].bet >= 0
  /\ pot >= 0
  /\ currentBet >= 0

\* ---- a table on which a hand was abandoned
\* The table as constructed, as one value.
NewTable ==
  [players |-> <<>>, obj |-> [id \in PIDS |-> NewPlayer(InitChips)], pot |-> 0,
   currentBet |-> 0, dealerPosition |-> -1, currentPlayerIndex |-> -1,
   stage |-> "waiting", communityCards |-> 0, deck |-> DeckSize,
   actionTimer |-> FALSE, timerFor |-> 0, startsBeforeTimer |-> 0, pendingStarts |-> 0,
   threw |-> FALSE, ret |-> "none", showdown |-> NoShowdown,
   streetEnd |-> NoStreetEnd, stageCalls |-> 0, sameStageAgain |-> FALSE]

\* Players 1 and 2 joined, player 2 called the big blind and player 1 left the table;
\* player 2, alone at the table, checked and called, which paid it the pot of the
\* abandoned hand; then player 1 took a seat again, its bet of that hand still on it.
AbandonedHand ==
  removePlayer(
    handlePlayerAction(addPlayer(addPlayer(NewTable, 1), 2), 2, "call", 0, NoStr), 1)

Rejoined ==
  addPlayer(
    handlePlayerAction(handlePlayerAction(AbandonedHand, 2, "check", 0, NoStr),
                       2, "call", 0, NoStr), 1)

\* Calls explored from the table Rejoined on.
LateOps == 3

\* The table after these seven calls, with LateOps more calls to come.
RejoinedInit ==
  /\ players = Rejoined.players
  /\ obj = Rejoined.obj
  /\ pot = Rejoined.pot
  /\ currentBet = Rejoined.currentBet
  /\ dealerPosition = Rejoined.dealerPosition
  /\ currentPlayerIndex = Rejoined.currentPlayerIndex
  /\ stage = Rejoined.stage
  /\ communityCards = Rejoined.communityCards
  /\ deck = Rejoined.deck
  /\ actionTimer = Rejoined.actionTimer
  /\ timerFor = Rejoined.timerFor
  /\ startsBeforeTimer = Rejoined.startsBeforeTimer
  /\ pendingStarts = Rejoined.pendingStarts
  /\ crashed = FALSE
  /\ ops = MaxOps - LateOps
  /\ lastCall = [NoCall EXCEPT !.op = "addPlayer", !.ret = "true"]

\* The amounts a caller may pass, negative ones and amounts below the big blind
\* included.
IntegerAmounts == -1..(2 * bigBlind)

IntegerInputs ==
  {<<a, 0>> : a \in Actions \ {"bet", "raise"}}
    \cup {<<a, m>> : a \in {"bet", "raise"}, m \in IntegerAmounts}

RejoinedNext ==
  \/ \E id \in PIDS : AddPlayer(id)
  \/ \E id \in PIDS : RemovePlayer(id)
  \/ \E id \in PIDS, in \in IntegerInputs : PlayerAction(id, in[1], in[2])
  \/ ActionTimerFires
  \/ DelayedStartFires

RejoinedSpec == RejoinedInit /\ [][RejoinedNext]_vars

\* The table RejoinedSpec starts from.
RejoinedReached ==
  <<players, obj, pot, currentBet, dealerPosition, currentPlayerIndex, stage,
    communityCards, deck, actionTimer, timerFor, startsBeforeTimer, pendingStarts>>
  = <<Rejoined.players, Rejoined.obj, Rejoined.pot, Rejoined.currentBet,
      Rejoined.dealerPosition, Rejoined.currentPlayerIndex, Rejoined.stage,
      Rejoined.communityCards, Rejoined.deck, Rejoined.actionTimer, Rejoined.timerFor,
      Rejoined.startsBeforeTimer, Rejoined.pendingStarts>>

\* C20: a betting street never ends with an unanswered wager: when a call ends a
\* street with two or more players still in the hand, every one of them who is not
\* all-in has a street bet equal to currentBet.
C20_NoUnansweredWager ==
  (/\ lastCall.streetEnd.happened
   /\ lastCall.streetEnd.stage \in BettingStages
   /\ Cardinality(lastCall.streetEnd.live) >= 2)
    => lastCall.streetEnd.owing = {}

\* C21: at most one delayed hand start is pending at any time, and none is pending
\* during PRE_FLOP, FLOP, TURN or RIVER; so a delayed start never fires in the middle
\* of a hand and never resets a pot that holds chips.
C21_OneDelayedStart ==
  /\ [](pendingStarts <= 1)
  /\ [](stage \in BettingStages => pendingStarts = 0)
  /\ [][lastCall'.op = "delayedStart"
          => stage \notin BettingStages /\ (pot > 0 => pot' >= pot)]_vars

\* C21, the first part alone: at most one delayed hand start is pending.
C21_AtMostOnePending == pendingStarts <= 1

\* C21, the second part alone: no delayed hand start is pending during a hand.
C21_NonePendingDuringHand == stage \in BettingStages => pendingStarts = 0

\* C21, the consequence alone: a delayed start that fires finds no hand in progress.
C21_NeverFiresDuringHand ==
  [][lastCall'.op = "delayedStart" => stage \notin BettingStages]_vars

\* The step is a handlePlayerAction call, from a caller or from the timer, that did
\* not return false; the player it acted for sat at currentPlayerIndex.
ActionTaken ==
  /\ lastCall'.op \in {"action", "timer"}
  /\ lastCall'.ret \in {"true", "threw"}

\* C22: no action is accepted outside an open betting street: in WAITING and in
\* SHOWDOWN handlePlayerAction returns false whatever the player, action and amount,
\* and in every stage it returns false for a player who is folded or all-in.
C22_NoActionOutsideStreet ==
  [][ActionTaken =>
       /\ stage \in BettingStages
       /\ ~obj[players[currentPlayerIndex + 1]].folded
       /\ ~obj[players[currentPlayerIndex + 1]].isAllIn]_vars

\* C22 on an open betting street alone: no action of a folded or all-in player is
\* accepted there.
C22_NoFoldedActorDuringStreet ==
  [][ActionTaken /\ stage \in BettingStages =>
       /\ ~obj[players[currentPlayerIndex + 1]].folded
       /\ ~obj[players[currentPlayerIndex + 1]].isAllIn]_vars

\* The step is an accepted CALL of the player to act, on an open betting street, with
\* nothing to call: currentBet - player.bet <= 0.
CallWithNothingToCall ==
  /\ lastCall'.op = "action" /\ lastCall'.ret = "true"
  /\ lastCall'.events # <<>>
  /\ lastCall'.events[1].action = "call"
  /\ stage \in BettingStages
  /\ currentBet - obj[lastCall'.events[1].playerId].bet <= 0
  /\ ~obj[lastCall'.events[1].playerId].folded
  /\ ~obj[lastCall'.events[1].playerId].isAllIn

\* C23: a CALL with nothing to call is a check: the table after it (flags, turn,
\* stage, pot, bets, cards, timer) is the table a CHECK of the same player in the
\* same state produces.
C23_CallIsCheck ==
  [][CallWithNothingToCall =>
       \E str \in [PIDS -> Strengths] :
         SameTable(handlePlayerAction(Cur, lastCall'.events[1].playerId, "check", 0, str))]_vars

\* C23 without the flags: pot, stacks and bets after a CALL with nothing to call are
\* those before it.
C23_CallMovesNoChips ==
  [][CallWithNothingToCall /\ stage' = stage =>
       /\ pot' = pot
       /\ \A id \in Seated : obj'[id].chips = obj[id].chips /\ obj'[id].bet = obj[id].bet]_vars

\* Everybody has answered on a street without a bet, the last of them by a CALL, and
\* the street is still open.
C23_StreetOpenAfterCalls ==
  /\ stage = "flop" /\ currentBet = 0
  /\ Cardinality(Contesting) = Len(players)
  /\ \A id \in Seated : obj[id].hasActedThisStage /\ ~obj[id].isChecked
  /\ lastCall.op = "action" /\ lastCall.ret = "true"
  /\ lastCall.events # <<>> /\ lastCall.events[1].action = "call"

\* The step is an accepted BET or RAISE of a player neither folded nor all-in, on a
\* betting street that the action leaves open.
BetOrRaise ==
  /\ lastCall'.op = "action" /\ lastCall'.ret = "true"
  /\ lastCall'.events # <<>>
  /\ lastCall'.events[1].action \in {"bet", "raise"}
  /\ stage \in BettingStages /\ stage' = stage
  /\ ~obj[lastCall'.events[1].playerId].folded
  /\ ~obj[lastCall'.events[1].playerId].isAllIn

\* C24: after an accepted BET(amount) or RAISE(amount), currentBet = amount, the
\* player's street bet = amount, the pot has grown by the chips that left the
\* player's stack (amount for BET, amount - previous bet for RAISE), and every seated
\* player's isChecked is false, whatever the player's stack.
C24_BetRaisePostcondition ==
  [][BetOrRaise =>
       LET id == lastCall'.events[1].playerId
           amount == lastCall'.events[1].amount
           due == IF lastCall'.events[1].action = "bet" THEN amount
                  ELSE amount - obj[id].bet
       IN /\ currentBet' = amount
          /\ obj'[id].bet = amount
          /\ pot' - pot = obj[id].chips - obj'[id].chips
          /\ pot' - pot = due
          /\ \A p \in Seated : ~obj'[p].isChecked]_vars

\* C24 with the stack taken into account: the chips moved are the amount due or the
\* player's whole stack, whichever is less, and the street bet grows by that much.
C24_BetRaiseCapped ==
  [][BetOrRaise =>
       LET id == lastCall'.events[1].playerId
           amount == lastCall'.events[1].amount
           due == IF lastCall'.events[1].action = "bet" THEN amount
                  ELSE amount - obj[id].bet
       IN /\ currentBet' = amount
          /\ obj'[id].bet = obj[id].bet + Min(due, obj[id].chips)
          /\ pot' - pot = obj[id].chips - obj'[id].chips
          /\ pot' - pot = Min(due, obj[id].chips)
          /\ \A p \in Seated : ~obj'[p].isChecked]_vars

\* The step is an accepted action of the player to act, neither folded nor all-in,
\* on a betting street that stays open: the hand does not end, the round is not
\* complete, and the turn passes.
TurnPasses ==
  /\ AcceptedAction
  /\ stage \in BettingStages /\ stage' = stage
  /\ currentPlayerIndex >= 0 /\ currentPlayerIndex < Len(players)
  /\ ~obj[players[currentPlayerIndex + 1]].folded
  /\ ~obj[players[currentPlayerIndex + 1]].isAllIn

\* The seat k places after the actor's, cyclically.
SeatAfter(k) == (currentPlayerIndex + k) % Len(players)

\* The seats the turn may go to by the rule as stated: not folded, not all-in and,
\* outside PRE_FLOP, not at currentBet.
MayActAsStated(k) ==
  LET p == obj'[players[SeatAfter(k) + 1]] IN
  ~p.folded /\ ~p.isAllIn /\ (stage = "pre-flop" \/ p.bet # currentBet')

\* The seats the turn may go to when a bet of 0 matches nothing: not folded, not
\* all-in and, outside PRE_FLOP, not at a currentBet greater than 0.
MayActFacingBet(k) ==
  LET p == obj'[players[SeatAfter(k) + 1]] IN
  ~p.folded /\ ~p.isAllIn /\ (stage = "pre-flop" \/ currentBet' = 0 \/ p.bet # currentBet')

\* The turn is at the seat k places after the actor's: the player there, and nobody
\* else, is active, and the action timer is armed for that player.
TurnAt(k) ==
  /\ currentPlayerIndex' = SeatAfter(k)
  /\ {id \in Seated : obj'[id].isActive} = {players[SeatAfter(k) + 1]}
  /\ actionTimer'
  /\ timerFor' = players[SeatAfter(k) + 1]

\* The turn goes to the seat k places after the actor's: the player there is made
\* active, the actor is not active any more, nobody else's isActive changes, and the
\* action timer is armed for the player there.
TurnGoesTo(k) ==
  /\ currentPlayerIndex' = SeatAfter(k)
  /\ obj'[players[SeatAfter(k) + 1]].isActive
  /\ ~obj'[players[currentPlayerIndex + 1]].isActive
  /\ \A id \in Seated \ {players[SeatAfter(k) + 1], players[currentPlayerIndex + 1]} :
       obj'[id].isActive = obj[id].isActive
  /\ actionTimer'
  /\ timerFor' = players[SeatAfter(k) + 1]

\* The step is an accepted CHECK of the player to act, neither folded nor all-in, on
\* a street without a bet, while another player still in the betting has not checked.
CheckLeavesUnchecked ==
  /\ lastCall'.op = "action" /\ lastCall'.ret = "true"
  /\ lastCall'.events # <<>>
  /\ lastCall'.events[1].action = "check"
  /\ stage \in BettingStages /\ currentBet = 0
  /\ lastCall'.events[1].playerId \in Contesting
  /\ \E id \in Contesting \ {lastCall'.events[1].playerId} : ~obj[id].isChecked

StageAdvances == stage' # stage /\ stage' \in {"flop", "turn", "river"}

\* The chips in the seated players' stacks.
TotalStacks == SumOver(Seated, [id \in PIDS |-> obj[id].chips])

\* C26: immediately after every transition to FLOP, TURN or RIVER every seated
\* player has bet = 0, isChecked = false and hasActedThisStage = false, currentBet
\* is 0, and the transition leaves the pot as the action that caused it made it: the
\* pot has grown by the chips that left the stacks in that action and by nothing else.
C26_StageReset ==
  [][StageAdvances =>
       /\ \A id \in Seated' :
            /\ obj'[id].bet = 0
            /\ ~obj'[id].isChecked
            /\ ~obj'[id].hasActedThisStage
       /\ currentBet' = 0
       /\ Seated' = Seated
       /\ pot' - pot = TotalStacks - TotalStacks'
       /\ pot' >= pot]_vars

\* Three players are seated; two of them had matched currentBet by a call, the CHECK
\* of the third has completed the round, and the flop is on the board with the pot
\* of the round in the middle.
C26_Witness ==
  /\ stage = "flop"
  /\ Len(players) = 3
  /\ lastCall.op = "action" /\ lastCall.ret = "true"
  /\ lastCall.events # <<>>
  /\ lastCall.events[1].action = "check"
  /\ lastCall.streetEnd.happened
  /\ lastCall.streetEnd.stage = "pre-flop"
  /\ Cardinality(lastCall.streetEnd.live) = 3
  /\ pot = 3 * bigBlind
  /\ communityCards = 3

\* The seated players that carry the flag after the step.
Flagged(flag) == {id \in Range(players') : obj'[id][flag]}

\* The player in seat i after the step.
SeatedAt(i) == players'[i + 1]

\* C27: immediately after a hand start with n >= 2 seated players the dealer
\* position has moved to the next seat modulo n; exactly one player is dealer (seat
\* d), one small blind (seat (d + 1) mod n) and one big blind (seat (d + 2) mod n);
\* the blinds posted min(blind, their chips) and the pot is the sum of the two posts;
\* currentBet = bigBlind; the board is empty; every seated player holds 2 cards; the
\* seat after the big blind is to act and only that player is active; the stage is
\* PRE_FLOP and the action timer is armed.
C27_HandStart ==
  [][HandStarts =>
       LET n == Len(players')
           d == dealerPosition'
           sbSeat == (d + 1) % n
           bbSeat == (d + 2) % n
           sbPost == Min(smallBlind, obj[SeatedAt(sbSeat)].chips)
           bbPost == Min(bigBlind, obj[SeatedAt(bbSeat)].chips)
       IN /\ n >= minPlayers
          /\ d = (dealerPosition + 1) % n
          /\ Flagged("isDealer") = {SeatedAt(d)}
          /\ Flagged("isSmallBlind") = {SeatedAt(sbSeat)}
          /\ Flagged("isBigBlind") = {SeatedAt(bbSeat)}
          /\ obj'[SeatedAt(sbSeat)].bet = sbPost
          /\ obj'[SeatedAt(sbSeat)].chips = obj[SeatedAt(sbSeat)].chips - sbPost
          /\ obj'[SeatedAt(bbSeat)].bet = bbPost
          /\ obj'[SeatedAt(bbSeat)].chips = obj[SeatedAt(bbSeat)].chips - bbPost
          /\ pot' = sbPost + bbPost
          /\ currentBet' = bigBlind
          /\ communityCards' = 0
          /\ \A id \in Range(players') : obj'[id].hand = 2
          /\ currentPlayerIndex' = (bbSeat + 1) % n
          /\ Flagged("isActive") = {SeatedAt((bbSeat + 1) % n)}
          /\ stage' = "pre-flop"
          /\ actionTimer'
          /\ timerFor' = SeatedAt((bbSeat + 1) % n)]_vars

\* A delayed start has begun the second hand of a full table: the button has moved
\* on, the blinds are in the pot, and a big blind short of chips has posted less.
C27_Witness ==
  /\ lastCall.op = "delayedStart"
  /\ stage = "pre-flop"
  /\ Len(players) = maxPlayers
  /\ dealerPosition = 1
  /\ currentPlayerIndex = 1
  /\ \E id \in Seated : obj[id].isBigBlind /\ obj[id].bet < bigBlind /\ obj[id].isAllIn

\* The blind a seated player posts at the hand start the step performs: the blind of
\* the seat, or the whole stack when it is less; 0 for the other seats.
BlindPosted(id) ==
  IF obj'[id].isSmallBlind THEN Min(smallBlind, obj[id].chips)
  ELSE IF obj'[id].isBigBlind THEN Min(bigBlind, obj[id].chips)
  ELSE 0

\* C28: immediately after every hand start every seated player has folded = false,
\* isChecked = false and hasActedThisStage = false, a street bet equal to the blind
\* just posted (0 for the other seats), and isAllIn only if posting a blind emptied
\* the stack, however the previous hand went and ended.
C28_FlagsResetAtHandStart ==
  [][HandStarts =>
       \A id \in Range(players') :
         /\ ~obj'[id].folded
         /\ ~obj'[id].isChecked
         /\ ~obj'[id].hasActedThisStage
         /\ obj'[id].bet = BlindPosted(id)
         /\ obj'[id].isAllIn =>
              (obj'[id].isSmallBlind \/ obj'[id].isBigBlind) /\ obj'[id].chips = 0]_vars

\* C28 for the flags resetHand and startGame assign: folded, hasActedThisStage, the
\* street bet and isAllIn.
C28_ResetHandFlags ==
  [][HandStarts =>
       \A id \in Range(players') :
         /\ ~obj'[id].folded
         /\ ~obj'[id].hasActedThisStage
         /\ obj'[id].bet = BlindPosted(id)
         /\ obj'[id].isAllIn =>
              (obj'[id].isSmallBlind \/ obj'[id].isBigBlind) /\ obj'[id].chips = 0]_vars

\* The step is a successful removePlayer during an open betting street that leaves
\* at least minPlayers seated.
PlayerLeavesHand ==
  /\ lastCall'.op = "removePlayer" /\ lastCall'.ret = "true"
  /\ stage \in BettingStages
  /\ Len(players') >= minPlayers

\* No seated player can have an action accepted, whatever the action and amount.
NobodyCanAct ==
  \A id \in Seated, in \in ActionInputs : returnsFalse(Cur, id, in[1], in[2])

\* No action timer is pending, or its callback finds no player at currentPlayerIndex
\* and does nothing.
TimerIdle ==
  ~actionTimer \/ ~(currentPlayerIndex >= 0 /\ currentPlayerIndex < Len(players))

\* C29: a hand survives a player leaving: after a successful removePlayer during an
\* open betting street with minPlayers or more still seated, currentPlayerIndex is
\* the seat of a player who can act and the action timer is pending for that player;
\* and the table is never on an open betting street where nobody can have an action
\* accepted and no timer expiry changes anything.
C29_HandSurvivesLeave ==
  /\ [][PlayerLeavesHand =>
          /\ currentPlayerIndex' >= 0
          /\ currentPlayerIndex' < Len(players')
          /\ ~obj'[players'[currentPlayerIndex' + 1]].folded
          /\ ~obj'[players'[currentPlayerIndex' + 1]].isAllIn
          /\ actionTimer'
          /\ timerFor' = players'[currentPlayerIndex' + 1]]_vars
  /\ [](stage \in BettingStages => ~(NobodyCanAct /\ TimerIdle))

\* C29, the last part alone: no open betting street on which nobody can act and the
\* timer does nothing.
C29_NeverStuck == stage \in BettingStages => ~(NobodyCanAct /\ TimerIdle)

\* ---- hands left to the timers
\* The stacks players 1, 2 and 3 register with.
Stacks == [1..3 -> 1..InitChips]

\* A new table and three players registered with the stacks c.
Registered(c) ==
  [NewTable EXCEPT !.obj = [id \in PIDS |->
                             IF id \in 1..3 THEN NewPlayer(c[id]) ELSE @[id]]]

\* The first hand of a table: players 1 and 2 have joined.
FirstHand(c) == addPlayer(addPlayer(Registered(c), 1), 2)

\* Player 3 has taken the third seat as the first hand began.
FirstHandOfThree(c) == addPlayer(FirstHand(c), 3)

\* Player 2 folded the first hand, player 1 left the table and joined again before
\* the start scheduled by the fold has fired: the join has started the second hand.
RestartedHand(c) ==
  addPlayer(removePlayer(handlePlayerAction(FirstHand(c), 2, "fold", 0, NoStr), 1), 1)

\* The hands that have just started, to be left to the timers.
StartedHands ==
  {FirstHand(c) : c \in {x \in Stacks : x[3] = InitChips}}
    \cup {FirstHandOfThree(c) : c \in Stacks}
    \cup {RestartedHand(c) : c \in {x \in Stacks : x[3] = InitChips}}

QuietInit ==
  /\ \E T \in StartedHands :
       /\ players = T.players
       /\ obj = T.obj
       /\ pot = T.pot
       /\ currentBet = T.currentBet
       /\ dealerPosition = T.dealerPosition
       /\ currentPlayerIndex = T.currentPlayerIndex
       /\ stage = T.stage
       /\ communityCards = T.communityCards
       /\ deck = T.deck
       /\ actionTimer = T.actionTimer
       /\ timerFor = T.timerFor
       /\ startsBeforeTimer = T.startsBeforeTimer
       /\ pendingStarts = T.pendingStarts
  /\ crashed = FALSE
  /\ ops = 0
  /\ lastCall = [NoCall EXCEPT !.op = "addPlayer", !.ret = "true"]

\* The callback of setActionTimer runs: the action timer has expired.
TimerExpires ==
  /\ ~crashed
  /\ actionTimer
  /\ startsBeforeTimer = 0
  /\ \E T0 \in {actionTimerCallback(Cur, NoStr)} :
     \E str \in StrChoices(T0) :
       \E T \in {IF str = NoStr THEN T0 ELSE actionTimerCallback(Cur, str)} :
       /\ Store(T)
       /\ crashed' = T.threw
       /\ lastCall' = [op |-> "timer", ret |-> T.ret, showdown |-> T.showdown,
                       events |-> <<>>, streetEnd |-> T.streetEnd]
  /\ UNCHANGED ops

\* The callback of setTimeout(() => startGame(), 5000) runs.
StartExpires ==
  /\ ~crashed
  /\ pendingStarts > 0
  /\ \E T \in {delayedStart(Cur)} : Store(T)
  /\ lastCall' = [NoCall EXCEPT !.op = "delayedStart"]
  /\ UNCHANGED <<crashed, ops>>

\* No caller acts, joins or leaves: only timers expire.
QuietNext == TimerExpires \/ StartExpires

\* The action timer is pending and no delayed start is due before it: the guard of
\* TimerExpires.
TimerPending == ~crashed /\ actionTimer /\ startsBeforeTimer = 0

\* The step is a run of the action timer's callback.
TimerRan == lastCall'.op = "timer"

\* WF_vars(TimerExpires), written out with the guard of TimerExpires for its
\* enabledness and the record of the call for its step: a pending action timer
\* expires in the end.
TimerFairness == []<>(~TimerPending) \/ []<><<TimerRan>>_vars

\* Every timer that is pending expires in the end.
QuietSpec ==
  QuietInit /\ [][QuietNext]_vars /\ TimerFairness /\ WF_vars(StartExpires)

\* An action timer is pending only for a seat of the table during a hand, where the
\* callback's CHECK or FOLD is accepted.
TimerActsWhenPending ==
  actionTimer =>
    /\ stage \in BettingStages
    /\ currentPlayerIndex >= 0 /\ currentPlayerIndex < Len(players)
    /\ ~returnsFalse(Cur, players[currentPlayerIndex + 1],
                     autoAction(Cur, obj[players[currentPlayerIndex + 1]]), 0)

\* A hand is in progress.
HandInProgress == stage \in BettingStages

\* The hand has come to its showdown and the pot is paid out.
HandOver == (stage = "showdown" \/ lastCall.showdown.happened) /\ pot = 0

\* The step ends the hand.
EndsHand == HandOver'

\* C30: unresponsive players cannot stall a hand: while no caller acts and nobody
\* joins or leaves, every started hand reaches its showdown and pays out its pot,
\* after finitely many timer expiries.
C30_HandEndsByTimers ==
  /\ HandInProgress ~> HandOver
  /\ [][(HandInProgress /\ pot > pot') => EndsHand]_vars

\* C30 for the hands that start with no delayed start pending.
C30_CleanHandEndsByTimers ==
  /\ (HandInProgress /\ pendingStarts = 0) ~> HandOver
  /\ [][(HandInProgress /\ pendingStarts = 0 /\ pot > pot') => EndsHand]_vars

\* C30, the first part alone: a hand in progress comes to its showdown.
C30_HandReachesShowdown == HandInProgress ~> HandOver

\* ---- C31: the chain of stage advances
\* What one step can run from here: every handlePlayerAction a caller may issue, and
\* the callback of the action timer while it is pending.
StepOutcomes ==
  {handlePlayerAction(Cur, id, in[1], in[2], NoStr) : id \in PIDS, in \in ActionInputs}
    \cup (IF actionTimer THEN {actionTimerCallback(Cur, NoStr)} ELSE {})

\* The longest chain, PRE_FLOP to FLOP, TURN, RIVER and SHOWDOWN: one call for each
\* betting stage.
MaxStageCalls == Cardinality(BettingStages)

\* C31: from every reachable state, WAITING and SHOWDOWN included, one
\* handlePlayerAction call or timer expiry enters moveToNextStage at most four
\* times, and moveToNextStage never calls itself with the stage unchanged.
C31_StageChainTerminates ==
  \A T \in StepOutcomes : ~T.sameStageAgain /\ T.stageCalls <= MaxStageCalls

\* C31, as far as it holds: from every reachable state whose stage is not WAITING.
C31_ChainEndsOutsideWaiting ==
  stage # "waiting" => C31_StageChainTerminates

\* A call ran the whole chain, from PRE_FLOP to the showdown.
C31_FullChain ==
  /\ lastCall.op \in {"action", "timer"}
  /\ lastCall.showdown.happened
  /\ lastCall.streetEnd.happened
  /\ lastCall.streetEnd.stage = "pre-flop"

\* ---- C32: running out the board
\* The step ends a betting street with two or more players in the hand, all of them
\* all-in.
StreetEndsAllIn ==
  /\ lastCall'.op \in {"action", "timer"}
  /\ stage \in BettingStages
  /\ lastCall'.streetEnd.happened
  /\ lastCall'.streetEnd.stage = stage
  /\ Cardinality(lastCall'.streetEnd.live) >= 2
  /\ \A id \in lastCall'.streetEnd.live : obj'[id].isAllIn

\* C32: when a street ends with every non-folded player all-in, the same step deals
\* the rest of the board and resolves the showdown, on exactly 5 community cards;
\* no seated player is active afterwards and no action timer is armed: a timer
\* pending afterwards is the one that was pending before.
C32_RunOutTheBoard ==
  [][StreetEndsAllIn =>
       /\ lastCall'.showdown.happened
       /\ Len(lastCall'.showdown.active) >= 2
       /\ communityCards' = 5
       /\ pot' = 0
       /\ stage' \in {"showdown", "waiting"}
       /\ actionTimer' => actionTimer /\ UNCHANGED <<timerFor, startsBeforeTimer>>
       /\ \A id \in Range(players) : ~obj'[id].isActive]_vars

\* A pre-flop street ended with everybody all-in, and the showdown was resolved in
\* the same call on a board of five cards.
C32_Witness ==
  /\ lastCall.op = "action"
  /\ lastCall.streetEnd.happened
  /\ lastCall.streetEnd.stage = "pre-flop"
  /\ Cardinality(lastCall.streetEnd.live) >= 2
  /\ \A id \in lastCall.streetEnd.live : obj[id].isAllIn
  /\ lastCall.showdown.happened
  /\ communityCards = 5

\* ---- C33: the all-in flag
\* C33: on an open betting street every seated player who has not folded and has no
\* chips left is flagged all-in.
C33_AllInFlag ==
  stage \in BettingStages =>
    \A id \in Seated : (~obj[id].folded /\ obj[id].chips = 0) => obj[id].isAllIn

\* The step is an accepted action of a hand in progress that is no CALL.
ActionButCall ==
  /\ lastCall'.op = "action"
  /\ lastCall'.ret = "true"
  /\ lastCall'.events # <<>>
  /\ lastCall'.events[1].action # "call"
  /\ stage \in BettingStages

\* C33, as far as it holds: a player whose stack is emptied by an action other than
\* CALL is flagged all-in by that action.
C33_AllInUnlessCall ==
  [][ActionButCall =>
       \A id \in Seated : (obj[id].chips > 0 /\ obj'[id].chips = 0) => obj'[id].isAllIn]_vars

\* The player to act has no chips and is not flagged all-in.
C33_BrokePlayerToAct ==
  /\ stage \in BettingStages
  /\ currentPlayerIndex >= 0
  /\ currentPlayerIndex < Len(players)
  /\ obj[players[currentPlayerIndex + 1]].chips = 0
  /\ ~obj[players[currentPlayerIndex + 1]].folded
  /\ ~obj[players[currentPlayerIndex + 1]].isAllIn
  /\ obj[players[currentPlayerIndex + 1]].isActive

\* ---- C34: players seated during a hand
\* C34: every seated player who has the turn on an open betting street, and every
\* player paid a share of the pot at a showdown, holds exactly 2 hole cards.
C34_OnlyDealtPlayersTakePart ==
  /\ stage \in BettingStages =>
       \A id \in Seated : obj[id].isActive => obj[id].hand = 2
  /\ lastCall.showdown.happened =>
       \A id \in PIDS : obj[id].chips > lastCall.showdown.chips[id] => obj[id].hand = 2

\* A player without hole cards was paid from the pot of a showdown in which hands
\* were compared.
C34_PaidWithoutCards ==
  /\ lastCall.showdown.happened
  /\ Len(lastCall.showdown.active) >= 2
  /\ \E id \in PIDS : obj[id].chips > lastCall.showdown.chips[id] /\ obj[id].hand = 0

\* ---- C35: the winners of a showdown
\* What the last showdown paid each player.
Paid(s) == [id \in PIDS |-> obj[id].chips - s.chips[id]]

\* C35: at a showdown with two or more non-folded players the players paid are
\* exactly the non-folded players whose hand compares equal to the best hand among
\* them, and the odd chips go to the first of them in seat order.
C35_ShowdownWinners ==
  LET s == lastCall.showdown IN
  (s.happened /\ Len(s.active) >= 2) =>
    /\ {id \in PIDS : Paid(s)[id] > 0} = Winners(s)
    /\ \A id \in PIDS : Paid(s)[id] >= 0
    /\ \A id \in Winners(s) \ {FirstWinner(s)} :
         Paid(s)[FirstWinner(s)] - Paid(s)[id] = s.pot % Cardinality(Winners(s))

\* A showdown among three players, two of them tied for the best hand and one weaker.
C35_Witness ==
  LET s == lastCall.showdown IN
  /\ s.happened
  /\ Len(s.active) = 3
  /\ Cardinality(Winners(s)) = 2
  /\ s.pot >= 3
  /\ \E id \in Range(s.active) : id \notin Winners(s) /\ Paid(s)[id] = 0

\* C35, as far as it holds: nobody but a tied winner is paid, the winners' shares
\* differ by the odd chips only, which the first of them in seat order gets, and
\* every winner is paid when the pot holds a chip for each of them.
C35_OnlyWinnersPaid ==
  LET s == lastCall.showdown IN
  (s.happened /\ Len(s.active) >= 2) =>
    /\ {id \in PIDS : Paid(s)[id] > 0} \subseteq Winners(s)
    /\ s.pot >= Cardinality(Winners(s)) => {id \in PIDS : Paid(s)[id] > 0} = Winners(s)
    /\ \A id \in PIDS : Paid(s)[id] >= 0
    /\ \A id \in Winners(s) \ {FirstWinner(s)} :
         Paid(s)[FirstWinner(s)] - Paid(s)[id] = s.pot % Cardinality(Winners(s))

\* ---- C36: which straight is returned
\* The cards a Straight is looked for in, and those a Straight Flush is looked for in.
StraightPool(category, all) ==
  IF category = STRAIGHT THEN all
  ELSE {c \in all : Cardinality({d \in all : d.suit = c.suit}) >= HandSize}

\* The ranks of the result, in its order.
RanksOf(result) == [i \in 1..Len(result.cards) |-> result.cards[i].rank]

\* The result is a straight of the pool, no straight of the pool has a higher top
\* card, and its cards are in order, the wheel as 5-4-3-2-A.
HighestStraight(result, pool) ==
  /\ Range(result.cards) \in FiveOf(pool)
  /\ StraightTop(Range(result.cards)) > 0
  /\ \A S \in FiveOf(pool) : StraightTop(S) <= StraightTop(Range(result.cards))
  /\ IF StraightTop(Range(result.cards)) = 5
     THEN RanksOf(result) = <<"FIVE", "FOUR", "THREE", "TWO", "ACE">>
     ELSE \A i \in 1..(HandSize - 1) :
            Value(result.cards[i]) = Value(result.cards[i + 1]) + 1

C36_WheelAndSix ==
  /\ lastCall.op = "evaluateHand"
  /\ lastCall.ret.rank = STRAIGHT
  /\ (WheelRanks \cup {"SIX"}) \subseteq {c.rank : c \in Range(lastCall.hole \o lastCall.board)}

\* ---- C37: the board and the stage
\* The number of community cards each betting stage is played with.
BoardOf(s) ==
  CASE s = "pre-flop" -> 0
    [] s = "flop" -> 3
    [] s = "turn" -> 4
    [] s = "river" -> 5

\* C37: the board holds 0 cards in PRE_FLOP, 3 in FLOP, 4 in TURN and 5 in RIVER,
\* and never more than 5.
C37_BoardMatchesStage ==
  /\ stage \in BettingStages => communityCards = BoardOf(stage)
  /\ communityCards <= 5

\* The river is being played, with the timer armed for the player to act, after a
\* hand that went through every street.
C37_Witness ==
  /\ stage = "river"
  /\ communityCards = 5
  /\ deck = DeckSize - 2 * Len(players) - 5
  /\ actionTimer
  /\ lastCall.streetEnd.happened
  /\ lastCall.streetEnd.stage = "turn"

\* ---- C38: cards are dealt without repetition
\* The cards drawn from the table's deck: the cards of one Deck are 52 different cards,
\* those of two Decks, shuffled apart, need not be.
DrawnFromDeck ==
  communityCards
    + SumOver(PIDS, [id \in PIDS |-> IF obj[id].handOfOldDeck THEN 0 ELSE obj[id].hand])

\* C38: during a hand every seated player's hole cards and the community cards are
\* cards of the table's one deck, hence pairwise different; every card drawn has
\* left the deck; and no draw finds the deck empty: every player dealt in has 2
\* cards and the board is complete for its stage.
C38_NoCardTwice ==
  /\ stage \in BettingStages =>
       \A id \in Seated : obj[id].hand > 0 => ~obj[id].handOfOldDeck
  /\ deck + DrawnFromDeck = DeckSize
  /\ deck >= 0
  /\ stage \in BettingStages =>
       /\ \A id \in Seated : obj[id].hand \in {0, HoleCards}
       /\ communityCards = BoardOf(stage)

\* C38, as far as it holds: every card drawn has left the deck, and no draw finds
\* the deck empty.
C38_DrawsRemoveCards ==
  /\ deck + DrawnFromDeck = DeckSize
  /\ deck >= 0
  /\ stage \in BettingStages =>
       /\ \A id \in Seated : obj[id].hand \in {0, HoleCards}
       /\ communityCards = BoardOf(stage)

\* A player sits at a hand in progress with the hole cards of an earlier hand.
C38_CardsOfTwoDecks ==
  /\ stage \in BettingStages
  /\ \E id \in Seated : obj[id].hand = HoleCards /\ obj[id].handOfOldDeck
  /\ \E id \in Seated : obj[id].hand = HoleCards /\ ~obj[id].handOfOldDeck

\* ---- what the table sends to its subscribers
\* Table.toJSON for the table T whose players hold the cards hands[id].
Table_toJSON(T, hands) ==
  [players |-> [i \in 1..Len(T.players) |->
                  toJSON(T.obj[T.players[i]], T.players[i], hands[T.players[i]])],
   communityCards |-> T.communityCards, pot |-> T.pot, currentBet |-> T.currentBet,
   smallBlind |-> smallBlind, bigBlind |-> bigBlind,
   dealerPosition |-> T.dealerPosition, currentPlayerIndex |-> T.currentPlayerIndex,
   stage |-> T.stage, maxPlayers |-> maxPlayers]

\* A snapshot with nobody's cards in it, where nothing is sent.
NoSnapshot == Table_toJSON(NewTable, [id \in PIDS |-> <<>>])

\* broadcastTableUpdate as handlePlayerAction calls it before it returns true: the
\* 'tableUpdate' event emitted to every subscriber of the table's room.
broadcastTableUpdate(T, hands) ==
  [sent |-> T.ret = "true",
   tableUpdate |-> IF T.ret = "true" THEN Table_toJSON(T, hands) ELSE NoSnapshot]

\* The response of PokerServer.handlePerformAction: performAction returns false for
\* a refused call and for one that threw.
handlePerformAction(T, hands) ==
  [success |-> T.ret = "true",
   tableState |-> IF T.ret = "true" THEN Table_toJSON(T, hands) ELSE NoSnapshot]

\* The cards of the deck that reach the players of the first hand.
DealtCards ==
  {[rank |-> "A", suit |-> "spades"], [rank |-> "K", suit |-> "hearts"],
   [rank |-> "7", suit |-> "clubs"], [rank |-> "2", suit |-> "diamonds"]}

\* Two cards each for players 1 and 2, all four different.
DealtHands ==
  {h \in [PIDS -> {<<>>} \cup (DealtCards \X DealtCards)] :
     /\ \A id \in {1, 2} : Len(h[id]) = 2
     /\ \A id \in PIDS \ {1, 2} : h[id] = <<>>
     /\ Cardinality({h[1][1], h[1][2], h[2][1], h[2][2]}) = 4}

\* The first hand of a table has begun, with LateOps calls to come; nothing has been
\* sent yet.
BroadcastInit ==
  /\ \E T \in {FirstHand(c) : c \in {x \in Stacks : x[3] = InitChips}} :
       /\ players = T.players
       /\ obj = T.obj
       /\ pot = T.pot
       /\ currentBet = T.currentBet
       /\ dealerPosition = T.dealerPosition
       /\ currentPlayerIndex = T.currentPlayerIndex
       /\ stage = T.stage
       /\ communityCards = T.communityCards
       /\ deck = T.deck
       /\ actionTimer = T.actionTimer
       /\ timerFor = T.timerFor
       /\ startsBeforeTimer = T.startsBeforeTimer
       /\ pendingStarts = T.pendingStarts
  /\ crashed = FALSE
  /\ ops = MaxOps - LateOps
  /\ \E h \in DealtHands :
       lastCall = [op |-> "none", hands |-> h, playerId |-> 0, stageBefore |-> "waiting",
                   response |-> handlePerformAction(NewTable, h),
                   update |-> broadcastTableUpdate(NewTable, h)]

\* A performAction request of playerId: the action, the snapshot broadcast to the
\* table's subscribers, and the response to the caller.
PerformAction(playerId, action, amount) ==
  /\ ~crashed
  /\ \E T0 \in {handlePlayerAction(Cur, playerId, action, amount, NoStr)} :
     \E str \in StrChoices(T0) :
       \E T \in {IF str = NoStr THEN T0
                 ELSE handlePlayerAction(Cur, playerId, action, amount, str)} :
       /\ Counted(T.ret # "false")
       /\ Store(T)
       /\ lastCall' = [lastCall EXCEPT !.op = "performAction", !.playerId = playerId,
                                       !.stageBefore = stage,
                                       !.response = handlePerformAction(T, lastCall.hands),
                                       !.update = broadcastTableUpdate(T, lastCall.hands)]
  /\ UNCHANGED crashed

\* The action timer expires: the action for the player to act, and the snapshot
\* broadcast to the table's subscribers; nobody is sent a response.
TimerBroadcasts ==
  /\ ~crashed
  /\ actionTimer
  /\ startsBeforeTimer = 0
  /\ Counted(TRUE)
  /\ \E T0 \in {actionTimerCallback(Cur, NoStr)} :
     \E str \in StrChoices(T0) :
       \E T \in {IF str = NoStr THEN T0 ELSE actionTimerCallback(Cur, str)} :
       /\ Store(T)
       /\ crashed' = T.threw
       /\ lastCall' = [lastCall EXCEPT !.op = "timer", !.playerId = 0,
                                       !.stageBefore = stage,
                                       !.response = handlePerformAction(NewTable, lastCall.hands),
                                       !.update = broadcastTableUpdate(T, lastCall.hands)]

BroadcastNext ==
  \/ \E id \in PIDS, in \in ActionInputs : PerformAction(id, in[1], in[2])
  \/ TimerBroadcasts

BroadcastSpec == BroadcastInit /\ [][BroadcastNext]_vars

\* The snapshot shows no hole cards but those of the recipient.
ShowsOnlyCardsOf(snapshot, recipient) ==
  \A i \in 1..Len(snapshot.players) :
    snapshot.players[i].id # recipient => snapshot.players[i].hand = <<>>

\* C39: while the hand is being played, the snapshot broadcast to the table's
\* subscribers and the tableState of a performAction response hold no hole cards
\* of any player but the one who receives them.
C39_NoHoleCardsSent ==
  (stage \in BettingStages /\ lastCall.stageBefore \in BettingStages) =>
    /\ lastCall.update.sent =>
         \A recipient \in PIDS : ShowsOnlyCardsOf(lastCall.update.tableUpdate, recipient)
    /\ lastCall.response.success =>
         ShowsOnlyCardsOf(lastCall.response.tableState, lastCall.playerId)

\* What is sent shows the table as it is: every seat with its player and the cards
\* that player holds.
C39_SnapshotShowsEveryHand ==
  lastCall.update.sent =>
    /\ Len(lastCall.update.tableUpdate.players) = Len(players)
    /\ \A i \in 1..Len(players) :
         /\ lastCall.update.tableUpdate.players[i].id = players[i]
         /\ lastCall.update.tableUpdate.players[i].hand = cardStrings(lastCall.hands[players[i]])

\* A player has called pre-flop and the response shows the other player's two cards.
C39_ResponseShowsOthersCards ==
  /\ lastCall.op = "performAction"
  /\ lastCall.response.success
  /\ stage = "pre-flop"
  /\ \E i \in 1..Len(lastCall.response.tableState.players) :
       /\ lastCall.response.tableState.players[i].id # lastCall.playerId
       /\ Len(lastCall.response.tableState.players[i].hand) = 2

\* ---- the registry of GameManager
\* GameManager.playerTables for the one table of the model: the ids mapped to it.
\* joinTable, leaveTable and performAction give the table, the registry and what
\* the call returned.
joinTable(T, registry, id) ==
  IF id \in registry THEN [table |-> T, registry |-> registry, ret |-> "true"]
  ELSE [table |-> addPlayer(T, id),
        registry |-> IF addPlayerOk(T) THEN registry \cup {id} ELSE registry,
        ret |-> IF addPlayerOk(T) THEN "true" ELSE "false"]

leaveTable(T, registry, id) ==
  IF id \notin registry THEN [table |-> T, registry |-> registry, ret |-> "false"]
  ELSE [table |-> removePlayer(T, id),
        registry |-> IF removePlayerOk(T, id) THEN registry \ {id} ELSE registry,
        ret |-> IF removePlayerOk(T, id) THEN "true" ELSE "false"]

\* getPlayerTable, then handlePlayerAction; an exception is caught and gives false.
performAction(T, registry, id, action, amount, str) ==
  IF id \notin registry THEN rejected(T)
  ELSE handlePlayerAction(T, id, action, amount, str)

\* A GameManager with its table, nobody registered at it.
RegistryInit ==
  /\ TableAtConstruction
  /\ lastCall = [op |-> "none", playerId |-> 0, ret |-> "none", registry |-> {}]

JoinTable(id) ==
  /\ ~crashed
  /\ JoinsNext(id)
  /\ \E r \in {joinTable(Cur, lastCall.registry, id)} :
       /\ Counted(id \notin lastCall.registry /\ r.ret = "true")
       /\ Store(r.table)
       /\ lastCall' = [op |-> "joinTable", playerId |-> id, ret |-> r.ret,
                       registry |-> r.registry]
  /\ UNCHANGED crashed

LeaveTable(id) ==
  /\ ~crashed
  /\ \E r \in {leaveTable(Cur, lastCall.registry, id)} :
       /\ Counted(r.ret = "true")
       /\ Store(r.table)
       /\ lastCall' = [op |-> "leaveTable", playerId |-> id, ret |-> r.ret,
                       registry |-> r.registry]
  /\ UNCHANGED crashed

RegisteredAction(id, action, amount) ==
  /\ ~crashed
  /\ \E T0 \in {performAction(Cur, lastCall.registry, id, action, amount, NoStr)} :
     \E str \in StrChoices(T0) :
       \E T \in {IF str = NoStr THEN T0
                 ELSE performAction(Cur, lastCall.registry, id, action, amount, str)} :
       /\ Counted(T.ret # "false")
       /\ Store(T)
       /\ lastCall' = [lastCall EXCEPT !.op = "performAction", !.playerId = id,
                                       !.ret = IF T.ret = "true" THEN "true" ELSE "false"]
  /\ UNCHANGED crashed

\* The timers of the table run as they do without a registry.
RegistryTimerFires ==
  /\ ~crashed
  /\ actionTimer
  /\ startsBeforeTimer = 0
  /\ Counted(TRUE)
  /\ \E T0 \in {actionTimerCallback(Cur, NoStr)} :
     \E str \in StrChoices(T0) :
       \E T \in {IF str = NoStr THEN T0 ELSE actionTimerCallback(Cur, str)} :
       /\ Store(T)
       /\ crashed' = T.threw
       /\ lastCall' = [lastCall EXCEPT !.op = "timer", !.playerId = 0, !.ret = T.ret]

RegistryStartFires ==
  /\ ~crashed
  /\ pendingStarts > 0
  /\ Counted(TRUE)
  /\ \E T \in {delayedStart(Cur)} : Store(T)
  /\ lastCall' = [lastCall EXCEPT !.op = "delayedStart", !.playerId = 0, !.ret = "none"]
  /\ UNCHANGED crashed

RegistryNext ==
  \/ \E id \in PIDS : JoinTable(id)
  \/ \E id \in PIDS : LeaveTable(id)
  \/ \E id \in PIDS, in \in ActionInputs : RegisteredAction(id, in[1], in[2])
  \/ RegistryTimerFires
  \/ RegistryStartFires

RegistrySpec == RegistryInit /\ [][RegistryNext]_vars

\* C40: the registry maps a player to the table exactly when the player is in the
\* table's seat list, and a player for whom joinTable returned true is seated.
C40_RegistryMatchesSeats ==
  /\ lastCall.registry = Seated
  /\ (lastCall.op = "joinTable" /\ lastCall.ret = "true") => lastCall.playerId \in Seated

\* C40, as far as it holds: every seated player is registered, a player for whom
\* joinTable returned true is registered, and a registered player who is not seated
\* has no chips.
C40_SeatedAreRegistered ==
  /\ Seated \subseteq lastCall.registry
  /\ (lastCall.op = "joinTable" /\ lastCall.ret = "true")
       => lastCall.playerId \in lastCall.registry
  /\ \A id \in lastCall.registry \ Seated : obj[id].chips <= 0

\* joinTable has returned true for a player who is not in the seat list.
C40_JoinedButNotSeated ==
  /\ lastCall.op = "joinTable"
  /\ lastCall.ret = "true"
  /\ lastCall.playerId \notin Seated
  /\ Len(players) < maxPlayers
====
